---- MODULE Spec2Model ----
(***************************************************************************)
(* A model of the timeline of PYEditor (src/ui/timeline_widget.py):        *)
(* TimelineClip, TimelineTrack, TimelineTrackWidget's mouse handlers and   *)
(* TimelineWidget's editing operations.                                    *)
(*                                                                         *)
(* Times are integers counted in ticks; one second is grid_interval ticks. *)
(* A pointer position is given by the time it maps to,                     *)
(* (x + scroll_offset) / pixels_per_second, and by its y coordinate.       *)
(* A clip is a record; its field oid stands for the identity of the Python *)
(* object, clip_id is the string the code builds: "clip_<n>" followed by   *)
(* <splits> copies of "_split". A name is the list of the " (1)" / " (2)"  *)
(* suffixes appended to the name the clip was added with.                  *)
(***************************************************************************)
EXTENDS Integers, Sequences, FiniteSets, TLC

VARIABLES
    tracks,             \* TimelineWidget.tracks: list of TimelineTrack
    playhead_time,      \* TimelineWidget.playhead_time
    snap_enabled,       \* TimelineWidget.snap_enabled
    pixels_per_second,  \* TimelineWidget.pixels_per_second
    duration,           \* TimelineWidget.duration
    current_tool,       \* TimelineWidget.current_tool
    clipboard,          \* TimelineWidget.clipboard: list of deep copies
    dragging_clip,      \* TimelineTrackWidget.dragging_clip: oid, or None
    drag_offset,        \* TimelineTrackWidget.drag_offset, in ticks
    timeline,           \* MainWindow.timeline: the core Timeline object
    keyframes,          \* KeyframeTrack.keyframes: list of Keyframe
    property,           \* an AnimatedProperty: its name and its tracks
    automation_keyframes, \* AutomationTrack.keyframes: dict from time to value
    timeline_clips,     \* VideoEditor.timeline_clips: the clip ids media was added for
    syncing_time,       \* VideoEditor._syncing_time
    preview_widget      \* VideoEditor.preview_widget: the PreviewWidget

vars == <<tracks, playhead_time, snap_enabled, pixels_per_second, duration,
          current_tool, clipboard, dragging_clip, drag_offset, timeline, keyframes,
          property, automation_keyframes, timeline_clips, syncing_time,
          preview_widget>>

\* the state of the core objects, which no TimelineWidget operation touches
coreVars == <<timeline, keyframes>>

\* the state of the other objects, which neither a TimelineWidget operation nor
\* a Timeline or KeyframeTrack call touches
auxVars == <<property, automation_keyframes, timeline_clips, syncing_time,
            preview_widget>>

----------------------------------------------------------------------------
(* Bounds of the model *)

MaxClips == 2
MaxTime == 3
MaxDur == 3
MaxNewTracks == 4
MaxCoreClips == 2

(* Program constants *)

\* grid_interval = 1.0 second, in ticks
grid_interval == 4

\* Python's None, where the other values are numbers
None == -1

Tools == {"select", "razor", "zoom", "hand", "slip", "slide", "ripple", "rolling"}

ZoomLevels == {10, 50}

Abs(x) == IF x < 0 THEN -x ELSE x

Max(a, b) == IF a >= b THEN a ELSE b

----------------------------------------------------------------------------
(* TimelineClip *)

TimelineClip(oid, clip_id, name, start_time, dur, track) ==
    [oid |-> oid, clip_id |-> clip_id, name |-> name, start_time |-> start_time,
     duration |-> dur, track |-> track, selected |-> FALSE,
     waveform_data |-> None, has_audio |-> FALSE]

end_time(clip) == clip.start_time + clip.duration

contains_time(clip, time) == clip.start_time <= time /\ time <= end_time(clip)

\* f"clip_{n}"
NewClipId(n) == [n |-> n, splits |-> 0]

\* the empty string add_clip_to_track returns on failure
NoClipId == [n |-> -1, splits |-> 0]

\* f"{clip_id}_split"
SplitId(clip_id) == [clip_id EXCEPT !.splits = @ + 1]

----------------------------------------------------------------------------
(* TimelineTrack *)

TrackHeight(track_type) == IF track_type = "video" THEN 60 ELSE 40

TimelineTrack(track_id, track_type) ==
    [track_id |-> track_id, track_type |-> track_type, locked |-> FALSE,
     clips |-> <<>>]

RECURSIVE InsertByStart(_, _)
\* one step of the stable sort: c goes after every clip that starts no later
InsertByStart(s, c) ==
    IF s = <<>> THEN <<c>>
    ELSE IF Head(s).start_time <= c.start_time
         THEN <<Head(s)>> \o InsertByStart(Tail(s), c)
         ELSE <<c>> \o s

RECURSIVE SortByStart(_)
\* list.sort(key=lambda c: c.start_time): stable, ascending
SortByStart(s) ==
    IF s = <<>> THEN <<>>
    ELSE InsertByStart(SortByStart(SubSeq(s, 1, Len(s) - 1)), s[Len(s)])

add_clip(track, clip) ==
    [track EXCEPT !.clips = SortByStart(Append(@, clip))]

\* index of the first clip with that id, 0 for None
get_clip_by_id(track, clip_id) ==
    LET hits == {i \in 1..Len(track.clips) : track.clips[i].clip_id = clip_id}
    IN IF hits = {} THEN 0 ELSE CHOOSE i \in hits : \A j \in hits : i <= j

\* move_clip without the test of the lock
move_clip_ignoring_lock(track, clip_id, new_start_time) ==
    LET i == get_clip_by_id(track, clip_id)
    IN IF i # 0
       THEN [track |-> [track EXCEPT !.clips =
                           SortByStart([@ EXCEPT ![i].start_time = new_start_time])],
             ret |-> TRUE]
       ELSE [track |-> track, ret |-> FALSE]

move_clip(track, clip_id, new_start_time) ==
    LET i == get_clip_by_id(track, clip_id)
    IN IF i # 0 /\ ~track.locked
       THEN [track |-> [track EXCEPT !.clips =
                           SortByStart([@ EXCEPT ![i].start_time = new_start_time])],
             ret |-> TRUE]
       ELSE [track |-> track, ret |-> FALSE]

\* the split test with the end of the clip allowed
split_in_range_closed(clip, split_time) ==
    clip.start_time < split_time /\ split_time <= end_time(clip)

split_in_range(clip, split_time) ==
    clip.start_time < split_time /\ split_time < end_time(clip)

left_duration(clip, split_time) == split_time - clip.start_time

\* the right duration taken from the clip's duration, as if the clip started at 0
right_duration_from_zero(clip, split_time) == clip.duration - split_time

right_duration(clip, split_time) == end_time(clip) - split_time

\* f"{clip.name} (1)" if not clip.name.endswith(" (1)") else clip.name
LeftName(name) ==
    IF Len(name) > 0 /\ name[Len(name)] = 1 THEN name ELSE Append(name, 1)

\* f"{clip.name} (2)"
RightName(name) == Append(name, 2)

\* oid is the identity of the TimelineClip object the call creates
split_clip(track, clip_id, split_time, oid) ==
    LET i == get_clip_by_id(track, clip_id)
    IN IF i # 0 /\ split_in_range(track.clips[i], split_time)
       THEN LET clip == track.clips[i]
                right_clip == TimelineClip(oid, SplitId(clip_id), RightName(clip.name),
                                           split_time, right_duration(clip, split_time),
                                           clip.track)
                left_clip == [clip EXCEPT !.duration = left_duration(clip, split_time),
                                          !.name = LeftName(clip.name)]
            IN [track |-> add_clip([track EXCEPT !.clips[i] = left_clip], right_clip),
                ret |-> <<left_clip, right_clip>>]
       ELSE [track |-> track, ret |-> <<>>]

\* removes the first clip with the id only, as list.remove would
remove_first_clip(track, clip_id) ==
    LET i == get_clip_by_id(track, clip_id)
    IN IF i = 0 THEN track
       ELSE [track EXCEPT !.clips = SubSeq(@, 1, i - 1) \o SubSeq(@, i + 1, Len(@))]

remove_clip(track, clip_id) ==
    [track EXCEPT !.clips = SelectSeq(@, LAMBDA c : c.clip_id # clip_id)]

\* index of the first clip that contains time, 0 for None
get_clip_at_time(track, time) ==
    LET hits == {i \in 1..Len(track.clips) : contains_time(track.clips[i], time)}
    IN IF hits = {} THEN 0 ELSE CHOOSE i \in hits : \A j \in hits : i <= j

----------------------------------------------------------------------------
(* TimelineWidget: helpers on the list of tracks. Track ids and list       *)
(* indexes count from 0 as in the code; tracks[k + 1] is Python's          *)
(* self.tracks[k].                                                         *)

RECURSIVE ConcatClips(_, _)
ConcatClips(ts, k) ==
    IF k > Len(ts) THEN <<>> ELSE ts[k].clips \o ConcatClips(ts, k + 1)

get_all_clips(ts) == ConcatClips(ts, 1)

\* the oids of the clip objects held by the tracks
TrackOids(ts) == {get_all_clips(ts)[k].oid : k \in 1..Len(get_all_clips(ts))}

\* clip in track.clips, for the object oid
InClips(track, oid) == \E j \in 1..Len(track.clips) : track.clips[j].oid = oid

\* the position of object oid in track.clips
PosOf(track, oid) == CHOOSE j \in 1..Len(track.clips) : track.clips[j].oid = oid

\* 0-based index of the first track whose clips hold the object, or None
current_track_of(ts, oid) ==
    LET hits == {i \in 1..Len(ts) : InClips(ts[i], oid)}
    IN IF hits = {} THEN None ELSE (CHOOSE i \in hits : \A j \in hits : i <= j) - 1

\* the record of an object held by some track
ClipOf(ts, oid) ==
    LET i == current_track_of(ts, oid) + 1
    IN ts[i].clips[PosOf(ts[i], oid)]

\* the identity of the next object created: the least one not in use
FreshOid(used) == CHOOSE n \in 1..(Cardinality(used) + 1) :
                      n \notin used /\ \A m \in 1..(n - 1) : m \in used

create_default_tracks ==
    [i \in 1..7 |-> IF i <= 3 THEN TimelineTrack(i - 1, "video")
                              ELSE TimelineTrack((i - 4) + 10, "audio")]

add_clip_to_track(ts, track_id, start_time, dur, oid) ==
    IF track_id < Len(ts)
    THEN LET clip_id == NewClipId(Len(get_all_clips(ts)))
             clip == TimelineClip(oid, clip_id, <<>>, start_time, dur, track_id)
         IN [tracks |-> [ts EXCEPT ![track_id + 1] = add_clip(@, clip)],
             ret |-> clip_id]
    ELSE [tracks |-> ts, ret |-> NoClipId]

remove_clip_all(ts, clip_id) == [i \in 1..Len(ts) |-> remove_clip(ts[i], clip_id)]

find_or_create_track(ts, track_type) ==
    Append(ts, TimelineTrack(Len(ts), track_type))

RECURSIVE MaxEnd(_, _)
MaxEnd(s, m) ==
    IF s = <<>> THEN m
    ELSE MaxEnd(Tail(s), IF end_time(Head(s)) > m THEN end_time(Head(s)) ELSE m)

get_timeline_end_time(ts) == MaxEnd(get_all_clips(ts), 0)

target_in_range(ts, new_track_id) == new_track_id < Len(ts)

\* clip is the object oid; the result carries the new tracks and the value returned
move_clip_to_track(ts, oid, new_track_id) ==
    IF ~target_in_range(ts, new_track_id) THEN [tracks |-> ts, ret |-> FALSE]
    ELSE LET cur == current_track_of(ts, oid)
         IN IF cur = None THEN [tracks |-> ts, ret |-> FALSE]
            ELSE LET clip == ClipOf(ts, oid)
                     removed == [ts EXCEPT ![cur + 1] = remove_clip(@, clip.clip_id)]
                     moved == [clip EXCEPT !.track = new_track_id]
                 IN [tracks |-> [removed EXCEPT ![new_track_id + 1] = add_clip(@, moved)],
                     ret |-> TRUE]

\* round(time / grid_interval) * grid_interval; round() rounds a half to even
grid_time(time) ==
    LET q == time \div grid_interval
        r == time % grid_interval
    IN IF 2 * r < grid_interval THEN q * grid_interval
       ELSE IF 2 * r > grid_interval THEN (q + 1) * grid_interval
       ELSE IF q % 2 = 0 THEN q * grid_interval ELSE (q + 1) * grid_interval

\* abs(time - c) < snap_threshold, snap_threshold = 0.5 / pixels_per_second * 10
\* seconds, compared in ticks without dividing
within_threshold(time, c, pps) == Abs(time - c) * pps * 2 < 10 * grid_interval

RECURSIVE ClipCandidates(_, _, _, _)
\* the start and end of every clip but those with the dragged clip's id
ClipCandidates(s, time, skip_id, pps) ==
    IF s = <<>> THEN <<>>
    ELSE LET c == Head(s)
             own == IF c.clip_id = skip_id THEN <<>>
                    ELSE (IF within_threshold(time, c.start_time, pps)
                          THEN <<c.start_time>> ELSE <<>>)
                         \o (IF within_threshold(time, end_time(c), pps)
                             THEN <<end_time(c)>> ELSE <<>>)
         IN own \o ClipCandidates(Tail(s), time, skip_id, pps)

\* min(candidates, key=lambda t: abs(t - time)): the first of the nearest
NearestOf(cands, time) ==
    LET best == CHOOSE i \in 1..Len(cands) :
                    /\ \A j \in 1..Len(cands) : Abs(cands[i] - time) <= Abs(cands[j] - time)
                    /\ \A j \in 1..(i - 1) : Abs(cands[j] - time) > Abs(cands[i] - time)
    IN cands[best]

\* skip_id is dragging_clip.clip_id, NoClipId when no clip is given
snap_time(ts, time, skip_id, enabled, pps, playhead) ==
    IF ~enabled THEN time
    ELSE LET cands ==
                 (IF within_threshold(time, grid_time(time), pps)
                  THEN <<grid_time(time)>> ELSE <<>>)
                 \o (IF within_threshold(time, playhead, pps) THEN <<playhead>> ELSE <<>>)
                 \o ClipCandidates(get_all_clips(ts), time, skip_id, pps)
         IN IF cands # <<>> THEN NearestOf(cands, time) ELSE time

\* TimelineTrackWidget.indexForTrack
indexForTrack(ts, track_id) ==
    LET hits == {i \in 1..Len(ts) : ts[i].track_id = track_id}
    IN IF hits = {} THEN 0 ELSE (CHOOSE i \in hits : \A j \in hits : i <= j) - 1

\* the track index the loop of mouseMoveEvent finds for the pointer's y
TrackIndexAtY(ts, y, track_index) ==
    LET hits == {i \in 0..(Len(ts) - 1) :
                    /\ y >= i * TrackHeight(ts[i + 1].track_type)
                    /\ y < (i + 1) * TrackHeight(ts[i + 1].track_type)}
    IN IF hits = {} THEN track_index ELSE CHOOSE i \in hits : \A j \in hits : i <= j

\* select_clip: c.selected = (c == clip) for the clips of the widget's track
select_clip(track, oid) ==
    [track EXCEPT !.clips = [j \in 1..Len(track.clips) |->
        [track.clips[j] EXCEPT !.selected = (track.clips[j].oid = oid)]]]

get_selected_clips(ts) == SelectSeq(get_all_clips(ts), LAMBDA c : c.selected)

RECURSIVE RemoveEach(_, _)
\* delete_selected_clips: remove_clip(clip.clip_id) for each selected clip
RemoveEach(ts, sel) ==
    IF sel = <<>> THEN ts ELSE RemoveEach(remove_clip_all(ts, Head(sel).clip_id), Tail(sel))

RECURSIVE PasteEach(_, _, _, _)
\* the loop of paste_clips; used holds the identities that are taken
PasteEach(ts, cb, playhead, used) ==
    IF cb = <<>> THEN ts
    ELSE LET oid == FreshOid(used)
             new_clip == [Head(cb) EXCEPT !.oid = oid,
                                          !.clip_id = NewClipId(Len(get_all_clips(ts))),
                                          !.start_time = playhead]
             ts2 == IF new_clip.track < Len(ts)
                    THEN [ts EXCEPT ![new_clip.track + 1] = add_clip(@, new_clip)]
                    ELSE ts
         IN PasteEach(ts2, Tail(cb), playhead, used \cup {oid})

RECURSIVE SplitEach(_, _, _, _)
\* the loop of split_at_playhead, from track k on
SplitEach(ts, k, playhead, used) ==
    IF k > Len(ts) THEN ts
    ELSE LET i == get_clip_at_time(ts[k], playhead)
         IN IF i = 0 THEN SplitEach(ts, k + 1, playhead, used)
            ELSE LET oid == FreshOid(used)
                     r == split_clip(ts[k], ts[k].clips[i].clip_id, playhead, oid)
                 IN SplitEach([ts EXCEPT ![k] = r.track], k + 1, playhead,
                              used \cup {oid})

----------------------------------------------------------------------------
(* The core Timeline (src/core/timeline.py). A media clip is given by      *)
(* whether it has an fps attribute (a video clip) and by its duration. A   *)
(* clip object is shared by Timeline.clips and its track's clips; the      *)
(* uuid in its id field stands for the object. A call returns the Timeline  *)
(* after it, the exception it raised ("" for none) and its value.          *)

CoreTimelineClip(id, has_fps, start_time, dur, track) ==
    [id |-> id, has_fps |-> has_fps, start_time |-> start_time, duration |-> dur,
     end_time |-> start_time + dur, track |-> track, selected |-> FALSE]

Track(track_type) == [clips |-> <<>>, locked |-> FALSE, track_type |-> track_type]

Timeline ==
    [clips |-> <<>>, video_tracks |-> <<>>, audio_tracks |-> <<>>,
     selected_clips |-> <<>>, snapping_enabled |-> TRUE, magnetic_timeline |-> TRUE]

Returned(tl, value) == [tl |-> tl, raised |-> "", value |-> value]

Raised(tl, exception) == [tl |-> tl, raised |-> exception, value |-> None]

\* hasattr(clip, 'fps')
TrackTypeOf(has_fps) == IF has_fps THEN "video" ELSE "audio"

get_tracks(tl, track_type) ==
    IF track_type = "video" THEN tl.video_tracks ELSE tl.audio_tracks

WithTracks(tl, track_type, ts) ==
    IF track_type = "video" THEN [tl EXCEPT !.video_tracks = ts]
                            ELSE [tl EXCEPT !.audio_tracks = ts]

\* track_index counts from 0, as in the code
RECURSIVE AppendTracks(_, _, _)
AppendTracks(ts, track_type, track_index) ==
    IF Len(ts) <= track_index
    THEN AppendTracks(Append(ts, Track(track_type)), track_type, track_index)
    ELSE ts

ensure_track_exists(tl, track_type, track_index) ==
    WithTracks(tl, track_type, AppendTracks(get_tracks(tl, track_type), track_type, track_index))

is_track_locked(tl, track_type, track_index) ==
    IF track_index < Len(get_tracks(tl, track_type))
    THEN get_tracks(tl, track_type)[track_index + 1].locked
    ELSE FALSE

lock_track(tl, track_type, track_index) ==
    LET t2 == ensure_track_exists(tl, track_type, track_index)
    IN WithTracks(t2, track_type,
                  [get_tracks(t2, track_type) EXCEPT ![track_index + 1].locked = TRUE])

get_snap_positions(tl) ==
    {0} \cup {tl.clips[i].start_time : i \in 1..Len(tl.clips)}
        \cup {tl.clips[i].end_time : i \in 1..Len(tl.clips)}

\* min over the sorted positions takes the least of the nearest ones; the
\* threshold is snap_threshold = 0.1 s, a tenth of grid_interval ticks
get_nearest_snap_position(tl, time) ==
    IF ~tl.snapping_enabled THEN time
    ELSE LET snap_positions == get_snap_positions(tl)
             nearest == {p \in snap_positions :
                            \A q \in snap_positions : Abs(p - time) <= Abs(q - time)}
             closest_snap == CHOOSE p \in nearest : \A q \in nearest : p <= q
         IN IF Abs(closest_snap - time) * 10 <= grid_interval
            THEN closest_snap ELSE time

Timeline_add_clip(tl, has_fps, start_time, dur, track, id) ==
    LET track_type == TrackTypeOf(has_fps)
    IN IF is_track_locked(tl, track_type, track)
       THEN Raised(tl, "ValueError")
       ELSE LET t2 == ensure_track_exists(tl, track_type, track)
                start == IF t2.snapping_enabled
                         THEN get_nearest_snap_position(t2, start_time)
                         ELSE start_time
                timeline_clip == CoreTimelineClip(id, has_fps, start, dur, track)
                t3 == [t2 EXCEPT !.clips = Append(@, timeline_clip)]
                ts == get_tracks(t3, track_type)
            IN Returned(WithTracks(t3, track_type,
                            [ts EXCEPT ![track + 1].clips = Append(@, timeline_clip)]),
                        id)

\* the position in Timeline.clips of the first clip with this id, 0 for None
Timeline_get_clip_by_id(tl, clip_id) ==
    IF \E i \in 1..Len(tl.clips) : tl.clips[i].id = clip_id
    THEN CHOOSE i \in 1..Len(tl.clips) :
            /\ tl.clips[i].id = clip_id
            /\ \A j \in 1..(i - 1) : tl.clips[j].id # clip_id
    ELSE 0

RemoveAt(s, i) == SubSeq(s, 1, i - 1) \o SubSeq(s, i + 1, Len(s))

\* Timeline has no attribute tracks (it has video_tracks and audio_tracks):
\* reading self.tracks raises AttributeError, after the clip has left
\* Timeline.clips
Timeline_remove_clip(tl, clip_id) ==
    LET i == Timeline_get_clip_by_id(tl, clip_id)
    IN IF i = 0
       THEN Returned(tl, FALSE)
       ELSE Raised([tl EXCEPT !.clips = RemoveAt(@, i)], "AttributeError")

\* reading self.tracks raises AttributeError before the clip is touched
Timeline_move_clip(tl, clip_id, new_start_time) ==
    LET i == Timeline_get_clip_by_id(tl, clip_id)
    IN IF i = 0
       THEN Returned(tl, FALSE)
       ELSE Raised(tl, "AttributeError")

\* except Exception catches what remove_clip and add_clip raise
Timeline_split_clip(tl, clip_id, split_time, id1, id2) ==
    LET i == Timeline_get_clip_by_id(tl, clip_id)
    IN IF i = 0
       THEN Returned(tl, <<None, None>>)
       ELSE LET clip == tl.clips[i]
                relative_split_time == split_time - clip.start_time
            IN IF relative_split_time <= 0 \/ relative_split_time >= clip.duration
               THEN Returned(tl, <<None, None>>)
               ELSE LET r == Timeline_remove_clip(tl, clip_id)
                        a == Timeline_add_clip(r.tl, clip.has_fps, clip.start_time,
                                               relative_split_time, clip.track, id1)
                        b == Timeline_add_clip(a.tl, clip.has_fps, split_time,
                                               clip.duration - relative_split_time,
                                               clip.track, id2)
                    IN IF r.raised # "" THEN Returned(r.tl, <<None, None>>)
                       ELSE IF a.raised # "" THEN Returned(a.tl, <<None, None>>)
                       ELSE IF b.raised # "" THEN Returned(b.tl, <<None, None>>)
                       ELSE Returned(b.tl, <<a.value, b.value>>)

Timeline_get_clips_at_time(tl, time) ==
    SelectSeq(tl.clips, LAMBDA clip : clip.start_time <= time /\ time <= clip.end_time)

get_total_duration(tl) ==
    IF tl.clips = <<>> THEN 0
    ELSE CHOOSE e \in {tl.clips[i].end_time : i \in 1..Len(tl.clips)} :
            \A i \in 1..Len(tl.clips) : tl.clips[i].end_time <= e

\* clip.selected = True is set on the object, which its track holds too
MarkSelected(s, clip_id) ==
    [k \in 1..Len(s) |-> IF s[k].id = clip_id THEN [s[k] EXCEPT !.selected = TRUE] ELSE s[k]]

MarkInTracks(ts, clip_id) ==
    [k \in 1..Len(ts) |-> [ts[k] EXCEPT !.clips = MarkSelected(@, clip_id)]]

Timeline_select_clip(tl, clip_id) ==
    IF \E k \in 1..Len(tl.selected_clips) : tl.selected_clips[k] = clip_id
    THEN tl
    ELSE [tl EXCEPT !.selected_clips = Append(@, clip_id),
                    !.clips = MarkSelected(@, clip_id),
                    !.video_tracks = MarkInTracks(@, clip_id),
                    !.audio_tracks = MarkInTracks(@, clip_id)]

\* every clip object some track of the core Timeline holds
RECURSIVE ClipsOfTracks(_, _)
ClipsOfTracks(ts, k) ==
    IF k > Len(ts) THEN <<>> ELSE ts[k].clips \o ClipsOfTracks(ts, k + 1)

TrackClips(tl) == ClipsOfTracks(tl.video_tracks, 1) \o ClipsOfTracks(tl.audio_tracks, 1)

----------------------------------------------------------------------------
(* KeyframeTrack (src/core/keyframing.py). Keyframe times are integers in  *)
(* thousandths of the time unit, values are integers. A value evaluate     *)
(* returns is whole + num / den.                                           *)

Keyframe(time, value) == [time |-> time, value |-> value]

\* np.isclose(a, b): abs(a - b) <= atol + rtol * abs(b) with numpy's defaults
\* atol = 1e-08 and rtol = 1e-05; in thousandths this is
\* 100000 * abs(a - b) <= 1 + abs(b), divided here to stay within the integers
isclose(a, b) == Abs(a - b) <= (1 + Abs(b)) \div 100000

\* the position of the first keyframe close to time, 0 for None
find_keyframe_index(kfs, time) ==
    LET hits == {i \in 1..Len(kfs) : isclose(kfs[i].time, time)}
    IN IF hits = {} THEN 0 ELSE CHOOSE i \in hits : \A j \in hits : i <= j

\* bisect.bisect_right on the times: the number of keyframes up to time, in a
\* list sorted by time
bisect_right(kfs, time) ==
    LET le == {i \in 1..Len(kfs) : \A j \in 1..i : kfs[j].time <= time}
    IN Cardinality(le)

\* bisect.insort with key: after the keyframes whose time is not greater
insort(kfs, kf) ==
    LET n == bisect_right(kfs, kf.time)
    IN SubSeq(kfs, 1, n) \o <<kf>> \o SubSeq(kfs, n + 1, Len(kfs))

add_keyframe(kfs, time, value) ==
    LET index == find_keyframe_index(kfs, time)
    IN IF index # 0
       THEN [kfs EXCEPT ![index].value = value]
       ELSE insort(kfs, Keyframe(time, value))

remove_keyframe(kfs, time) ==
    LET index == find_keyframe_index(kfs, time)
    IN IF index # 0
       THEN SubSeq(kfs, 1, index - 1) \o SubSeq(kfs, index + 1, Len(kfs))
       ELSE kfs

RECURSIVE GCD(_, _)
GCD(a, b) == IF b = 0 THEN a ELSE GCD(b, a % b)

\* the number whole + num / den, den above 0, written in one way only: with
\* its integer part, and the rest in lowest terms
Value(whole, num, den) ==
    LET n == whole * den + num
        r == n % den
    IN [whole |-> n \div den, num |-> r \div GCD(r, den), den |-> den \div GCD(r, den)]

\* what a call of evaluate gives: a value, or the exception it raised
Evaluated(value) == [raised |-> "", value |-> value]

EvaluateRaised(exception) == [raised |-> exception, value |-> None]

\* np.interp of time between two keyframes: the left value plus the slope
\* times the distance from the left time
interp(time, left_kf, right_kf) ==
    Value(left_kf.value,
          (right_kf.value - left_kf.value) * (time - left_kf.time),
          right_kf.time - left_kf.time)

\* evaluate that returns 0.0 before the first keyframe
evaluate_interpolation_unclamped(kfs, time, interpolation) ==
    IF kfs = <<>> \/ time < kfs[1].time THEN Evaluated(Value(0, 0, 1))
    ELSE IF time >= kfs[Len(kfs)].time THEN Evaluated(Value(kfs[Len(kfs)].value, 0, 1))
    ELSE Evaluated(interp(time, kfs[bisect_right(kfs, time)], kfs[bisect_right(kfs, time) + 1]))

\* evaluate(time, interpolation)
evaluate_interpolation(kfs, time, interpolation) ==
    IF kfs = <<>> THEN Evaluated(Value(0, 0, 1))
    ELSE IF time < kfs[1].time THEN Evaluated(Value(kfs[1].value, 0, 1))
    ELSE IF time >= kfs[Len(kfs)].time THEN Evaluated(Value(kfs[Len(kfs)].value, 0, 1))
    ELSE LET right_index == bisect_right(kfs, time) + 1
             left_kf == kfs[right_index - 1]
             right_kf == kfs[right_index]
         IN IF interpolation = "linear"
            THEN Evaluated(interp(time, left_kf, right_kf))
            ELSE EvaluateRaised("NotImplementedError")

\* evaluate(time), with the default interpolation 'linear'
evaluate(kfs, time) == evaluate_interpolation(kfs, time, "linear").value

\* clear
clear == <<>>

(* The arithmetic of np.interp in binary floating point, round to nearest,  *)
(* ties to even, with a significand of SignificandBits bits (a double has  *)
(* 53) and a smallest spacing of one eighth. Numbers are in thousandths.   *)

SignificandBits == 4

Spacing == 1000 \div 8

\* n / d rounded to an integer, ties to even; n from 0 on, d above 0
RoundHalfEven(n, d) ==
    IF 2 * (n % d) > d \/ (2 * (n % d) = d /\ (n \div d) % 2 = 1)
    THEN (n \div d) + 1
    ELSE n \div d

RECURSIVE SpacingAt(_, _, _)
\* the spacing of the floating-point numbers around n / d, from g up
SpacingAt(n, d, g) ==
    IF n < (2 ^ SignificandBits) * g * d THEN g ELSE SpacingAt(n, d, 2 * g)

\* the floating-point number nearest to n / d, d above 0
fl(n, d) ==
    LET g == SpacingAt(Abs(n), d, Spacing)
        m == RoundHalfEven(Abs(n), d * g)
    IN IF n < 0 THEN 0 - m * g ELSE m * g

\* np.interp as it is computed: slope = (fp[j+1] - fp[j]) / (xp[j+1] - xp[j]),
\* then slope * (x - xp[j]) + fp[j], every operation rounded
np_interp(time, left_kf, right_kf) ==
    LET slope == fl(fl(right_kf.value - left_kf.value, 1) * 1000,
                    fl(right_kf.time - left_kf.time, 1))
    IN fl(fl(slope * fl(time - left_kf.time, 1), 1000) + left_kf.value, 1)

\* evaluate(time) on keyframes that are floating-point numbers, with the
\* rounding of np.interp
evaluate_rounded(kfs, time) ==
    IF kfs = <<>> THEN 0
    ELSE IF time < kfs[1].time THEN kfs[1].value
    ELSE IF time >= kfs[Len(kfs)].time THEN kfs[Len(kfs)].value
    ELSE LET right_index == bisect_right(kfs, time) + 1
         IN np_interp(time, kfs[right_index - 1], kfs[right_index])

----------------------------------------------------------------------------
(* AnimatedProperty (src/core/keyframing.py): a name and the dict tracks,  *)
(* here the list of its items in insertion order.                          *)

ComponentTrack(component) == [component |-> component, keyframes |-> <<>>]

AnimatedProperty(name) ==
    [name |-> name,
     tracks |-> IF name \in {"position", "scale"}
                THEN <<ComponentTrack("x"), ComponentTrack("y")>>
                ELSE <<ComponentTrack("x")>>]

\* the values add_keyframe tells apart: an int or a float, a list or a tuple,
\* and anything else
ScalarValue(value) == [kind |-> "scalar", value |-> value, items |-> <<>>]

SequenceValue(items) == [kind |-> "sequence", value |-> 0, items |-> items]

OtherValue == [kind |-> "other", value |-> 0, items |-> <<>>]

\* component in self.tracks
HasComponent(p, component) ==
    \E i \in 1..Len(p.tracks) : p.tracks[i].component = component

\* self.tracks[component].add_keyframe(time, value)
AddToComponent(p, component, time, value) ==
    [p EXCEPT !.tracks = [i \in 1..Len(p.tracks) |->
        IF p.tracks[i].component = component
        THEN [p.tracks[i] EXCEPT !.keyframes = add_keyframe(@, time, value)]
        ELSE p.tracks[i]]]

RECURSIVE AddEach(_, _, _, _, _)
\* the loop over enumerate(value), from index i on
AddEach(p, components, items, time, i) ==
    IF i > Len(items) THEN p
    ELSE AddEach(IF HasComponent(p, components[i])
                 THEN AddToComponent(p, components[i], time, items[i])
                 ELSE p,
                 components, items, time, i + 1)

\* add_keyframe that gives the first item to y and the second to x
AnimatedProperty_add_keyframe_swapped(p, time, value, component) ==
    IF value.kind = "sequence"
    THEN AddEach(p, SubSeq(<<"y", "x", "z">>, 1, Len(value.items)), value.items, time, 1)
    ELSE p

\* add_keyframe(time, value, component); component "" is a component that is
\* not given or empty. A sequence has at most three items.
AnimatedProperty_add_keyframe(p, time, value, component) ==
    IF value.kind = "scalar"
    THEN IF component # "" /\ HasComponent(p, component)
         THEN AddToComponent(p, component, time, value.value)
         ELSE AddToComponent(p, "x", time, value.value)
    ELSE IF value.kind = "sequence"
    THEN AddEach(p, SubSeq(<<"x", "y", "z">>, 1, Len(value.items)), value.items, time, 1)
    ELSE p

\* evaluate(time): a scalar for one track, else a tuple
AnimatedProperty_evaluate(p, time) ==
    IF Len(p.tracks) = 1
    THEN [kind |-> "scalar", value |-> evaluate(p.tracks[1].keyframes, time), items |-> <<>>]
    ELSE [kind |-> "tuple", value |-> Value(0, 0, 1),
          items |-> [i \in 1..Len(p.tracks) |-> evaluate(p.tracks[i].keyframes, time)]]

AnimatedProperty_remove_keyframe(p, time, component) ==
    [p EXCEPT !.tracks = [i \in 1..Len(p.tracks) |->
        IF (component # "" /\ HasComponent(p, component)) => p.tracks[i].component = component
        THEN [p.tracks[i] EXCEPT !.keyframes = remove_keyframe(@, time)]
        ELSE p.tracks[i]]]

----------------------------------------------------------------------------
(* AutomationTrack (src/ui/timeline_widget.py). keyframes is a function    *)
(* from the times to the values, both floating-point numbers in            *)
(* thousandths; <<>> is the empty dict.                                    *)

min_value == 0

max_value == 1000

Min(a, b) == IF b < a THEN b ELSE a

\* add_keyframe that stores the value as it is given
automation_add_keyframe_unclamped(kfs, time, value) ==
    [t \in DOMAIN kfs \cup {time} |-> IF t = time THEN value ELSE kfs[t]]

\* AutomationTrack.add_keyframe
automation_add_keyframe(kfs, time, value) ==
    [t \in DOMAIN kfs \cup {time} |->
        IF t = time THEN Max(min_value, Min(max_value, value)) ELSE kfs[t]]

\* AutomationTrack.remove_keyframe
automation_remove_keyframe(kfs, time) == [t \in DOMAIN kfs \ {time} |-> kfs[t]]

\* (min_value + max_value) / 2
default_value == fl(fl(min_value + max_value, 1), 2)

\* AutomationTrack.get_value_at_time, every operation rounded; t1, t2 are the
\* first pair of neighbours in sorted(keys) with t1 <= time <= t2
get_value_at_time(kfs, time) ==
    IF DOMAIN kfs = {} THEN default_value
    ELSE LET first == CHOOSE t \in DOMAIN kfs : \A u \in DOMAIN kfs : t <= u
             last == CHOOSE t \in DOMAIN kfs : \A u \in DOMAIN kfs : u <= t
         IN IF time <= first THEN kfs[first]
            ELSE IF time >= last THEN kfs[last]
            ELSE LET t2 == CHOOSE t \in DOMAIN kfs :
                               t >= time /\ \A u \in DOMAIN kfs : u >= time => t <= u
                     t1 == CHOOSE t \in DOMAIN kfs :
                               t < t2 /\ \A u \in DOMAIN kfs : u < t2 => u <= t
                     factor == fl(fl(time - t1, 1) * 1000, fl(t2 - t1, 1))
                 IN fl(kfs[t1] + fl(fl(kfs[t2] - kfs[t1], 1) * factor, 1000), 1)

----------------------------------------------------------------------------
(* VideoEditor (src/ui/main_window.py): the waveform of a clip *)

\* the downsampled list generate_waveform_data stores, by its length
WaveformSamples == 100

\* what generate_waveform_data comes to: the samples are stored, the file has
\* no audio or does not load, or an exception is caught
WaveformOutcomes == {"data", "no_audio", "error"}

RECURSIVE FindClipById(_, _, _)
\* the loops over the tracks and their clips, from track k on: the track and
\* the position of the first clip with the id, or <<0, 0>>
FindClipById(ts, clip_id, k) ==
    IF k > Len(ts) THEN <<0, 0>>
    ELSE IF get_clip_by_id(ts[k], clip_id) # 0 THEN <<k, get_clip_by_id(ts[k], clip_id)>>
    ELSE FindClipById(ts, clip_id, k + 1)

\* TimelineWidget.generate_waveform_data on a clip record
generate_waveform_data(clip, outcome) ==
    IF outcome = "data"
    THEN [clip EXCEPT !.waveform_data = WaveformSamples, !.has_audio = TRUE]
    ELSE IF outcome = "error" THEN [clip EXCEPT !.waveform_data = None]
    ELSE clip

\* generate_waveform_for_clip that takes the first clip of the timeline when
\* no clip has the id
generate_waveform_for_first_clip(ts, clip_id, outcome) ==
    LET found == IF FindClipById(ts, clip_id, 1) # <<0, 0>>
                 THEN FindClipById(ts, clip_id, 1)
                 ELSE <<CHOOSE k \in 0..Len(ts) :
                            /\ k # 0 => ts[k].clips # <<>>
                            /\ \A j \in 1..Len(ts) : ts[j].clips # <<>> => k # 0 /\ k <= j,
                        1>>
    IN IF found[1] = 0 THEN ts
       ELSE [ts EXCEPT ![found[1]].clips[found[2]] = generate_waveform_data(@, outcome)]

\* VideoEditor.generate_waveform_for_clip
generate_waveform_for_clip(ts, clip_id, outcome) ==
    LET found == FindClipById(ts, clip_id, 1)
    IN IF found = <<0, 0>> THEN ts
       ELSE [ts EXCEPT ![found[1]].clips[found[2]] = generate_waveform_data(@, outcome)]

----------------------------------------------------------------------------
(* Time synchronisation of the timeline and the preview (VideoEditor in   *)
(* src/ui/main_window.py, PreviewWidget in src/ui/preview_widget.py).     *)
(* The signals are connected directly, so an emit runs the slot before it *)
(* returns. An editor e holds playhead_time, the preview, the guard, the  *)
(* calls made so far, the statement that is made to raise (fault) and the *)
(* exception that is leaving the call (exc, "" for none). An exception    *)
(* that leaves a slot is reported by the binding and does not reach the   *)
(* emitter (unhandled).                                                    *)

\* PreviewWidget.__init__: no clip, current_time and duration 0.0
PreviewWidget ==
    [video_clip |-> None, current_time |-> 0, duration |-> 0, is_playing |-> FALSE]

\* 1.0 / fps, in ticks
frame_duration == 1

\* video_clip is the duration of the clip, None for no clip
set_video_clip(pw, clip) ==
    IF clip # None
    THEN [pw EXCEPT !.video_clip = clip, !.duration = clip, !.current_time = 0]
    ELSE [pw EXCEPT !.video_clip = None, !.duration = 0]

\* the statements of the inner calls that may raise: min(time, self.duration)
\* for a time that is no number, update_time_display, update_tracks
Faults == {"", "min", "update_time_display", "update_tracks"}

RECURSIVE set_playhead_time(_, _)
RECURSIVE seek_to_time(_, _)
RECURSIVE on_timeline_time_changed(_, _)
RECURSIVE on_preview_time_changed(_, _)

\* self.time_changed.emit(time) of the widget a slot is connected to
emit(e, slot, time) ==
    LET r == IF slot = "on_timeline_time_changed"
             THEN on_timeline_time_changed(e, time)
             ELSE on_preview_time_changed(e, time)
    IN [r EXCEPT !.exc = "", !.unhandled = @ \/ (r.exc # "")]

set_playhead_time(e, time) ==
    LET e1 == [e EXCEPT !.calls = Append(@, "set_playhead_time"),
                        !.playhead_time = time]
        e2 == emit(e1, "on_timeline_time_changed", time)
    IN IF e.fault = "update_tracks" THEN [e2 EXCEPT !.exc = "Exception"] ELSE e2

seek_to_time(e, time) ==
    LET e0 == [e EXCEPT !.calls = Append(@, "seek_to_time")]
        e1 == [e0 EXCEPT !.preview.current_time = Max(0, Min(time, e.preview.duration))]
    IN IF e.fault = "min" THEN [e0 EXCEPT !.exc = "TypeError"]
       ELSE IF e.fault = "update_time_display" THEN [e1 EXCEPT !.exc = "Exception"]
       ELSE emit(e1, "on_preview_time_changed", e1.preview.current_time)

\* on_timeline_time_changed without the guard
on_timeline_time_changed_unguarded(e, time) ==
    LET e0 == [e EXCEPT !.calls = Append(@, "on_timeline_time_changed")]
        e1 == seek_to_time([e0 EXCEPT !.syncing_time = TRUE], time)
    IN [e1 EXCEPT !.syncing_time = FALSE]

on_timeline_time_changed(e, time) ==
    LET e0 == [e EXCEPT !.calls = Append(@, "on_timeline_time_changed")]
    IN IF e0.syncing_time THEN e0
       ELSE LET e1 == seek_to_time([e0 EXCEPT !.syncing_time = TRUE], time)
            IN [e1 EXCEPT !.syncing_time = FALSE]

on_preview_time_changed(e, time) ==
    LET e0 == [e EXCEPT !.calls = Append(@, "on_preview_time_changed")]
    IN IF e0.syncing_time THEN e0
       ELSE LET e1 == set_playhead_time([e0 EXCEPT !.syncing_time = TRUE], time)
            IN [e1 EXCEPT !.syncing_time = FALSE]

\* advance_frame, with the state of the loop check box
advance_frame(e, loop) ==
    IF ~e.preview.is_playing \/ e.preview.video_clip = None THEN e
    ELSE LET new_time == e.preview.current_time + frame_duration
         IN IF new_time >= e.preview.duration /\ ~loop
            THEN [e EXCEPT !.preview.is_playing = FALSE]
            ELSE seek_to_time(e, IF new_time >= e.preview.duration THEN 0 ELSE new_time)

stop_playback(e) == seek_to_time([e EXCEPT !.preview.is_playing = FALSE], 0)

toggle_playback(pw) ==
    IF pw.video_clip = None THEN pw ELSE [pw EXCEPT !.is_playing = ~pw.is_playing]

----------------------------------------------------------------------------
(* The state after TimelineWidget.__init__, Timeline.__init__ and          *)
(* KeyframeTrack()                                                         *)

Init ==
    /\ tracks = create_default_tracks
    /\ playhead_time = 0
    /\ snap_enabled = TRUE
    /\ pixels_per_second = 50
    /\ duration = 60 * grid_interval
    /\ current_tool = "select"
    /\ clipboard = <<>>
    /\ dragging_clip = None
    /\ drag_offset = 0
    /\ timeline = Timeline
    /\ keyframes = <<>>
    /\ property = AnimatedProperty("position")
    /\ automation_keyframes = <<>>
    /\ timeline_clips = {}
    /\ syncing_time = FALSE
    /\ preview_widget = PreviewWidget

NumClips == Len(get_all_clips(tracks))

UsedOids == TrackOids(tracks) \cup (IF dragging_clip = None THEN {} ELSE {dragging_clip})

----------------------------------------------------------------------------
(* TimelineWidget operations *)

AddClipToTrack(track_id, start_time, dur) ==
    /\ NumClips < MaxClips
    /\ LET r == add_clip_to_track(tracks, track_id, start_time, dur, FreshOid(UsedOids))
       IN /\ tracks' = r.tracks
    /\ UNCHANGED coreVars
    /\ UNCHANGED auxVars
    /\ UNCHANGED <<playhead_time, snap_enabled, pixels_per_second, duration,
                   current_tool, clipboard, dragging_clip, drag_offset>>

RemoveClip(clip_id) ==
    /\ tracks' = remove_clip_all(tracks, clip_id)
    /\ UNCHANGED coreVars
    /\ UNCHANGED auxVars
    /\ UNCHANGED <<playhead_time, snap_enabled, pixels_per_second, duration,
                   current_tool, clipboard, dragging_clip, drag_offset>>

\* the zoom slider is worked with the pointer, so not during a drag
SetZoom(zoom_level) ==
    /\ dragging_clip = None
    /\ zoom_level # pixels_per_second
    /\ pixels_per_second' = zoom_level
    /\ UNCHANGED coreVars
    /\ UNCHANGED auxVars
    /\ UNCHANGED <<tracks, playhead_time, snap_enabled, duration, current_tool,
                   clipboard, dragging_clip, drag_offset>>

ToggleSnap(enabled) ==
    /\ enabled # snap_enabled
    /\ snap_enabled' = enabled
    /\ UNCHANGED coreVars
    /\ UNCHANGED auxVars
    /\ UNCHANGED <<tracks, playhead_time, pixels_per_second, duration, current_tool,
                   clipboard, dragging_clip, drag_offset>>

SetPlayheadTime(time) ==
    /\ time # playhead_time
    /\ playhead_time' = time
    /\ UNCHANGED coreVars
    /\ UNCHANGED auxVars
    /\ UNCHANGED <<tracks, snap_enabled, pixels_per_second, duration, current_tool,
                   clipboard, dragging_clip, drag_offset>>

SetTool(tool) ==
    /\ tool # current_tool
    /\ current_tool' = tool
    /\ UNCHANGED coreVars
    /\ UNCHANGED auxVars
    /\ UNCHANGED <<tracks, playhead_time, snap_enabled, pixels_per_second, duration,
                   clipboard, dragging_clip, drag_offset>>

DeleteSelectedClips ==
    /\ get_selected_clips(tracks) # <<>>
    /\ tracks' = RemoveEach(tracks, get_selected_clips(tracks))
    /\ UNCHANGED coreVars
    /\ UNCHANGED auxVars
    /\ UNCHANGED <<playhead_time, snap_enabled, pixels_per_second, duration,
                   current_tool, clipboard, dragging_clip, drag_offset>>

\* a deep copy is another object: the copies carry no identity
CopySelectedClips ==
    /\ clipboard' = [k \in 1..Len(get_selected_clips(tracks)) |->
                        [get_selected_clips(tracks)[k] EXCEPT !.oid = 0]]
    /\ clipboard' # clipboard
    /\ UNCHANGED coreVars
    /\ UNCHANGED auxVars
    /\ UNCHANGED <<tracks, playhead_time, snap_enabled, pixels_per_second, duration,
                   current_tool, dragging_clip, drag_offset>>

PasteClips ==
    /\ clipboard # <<>>
    /\ NumClips + Len(clipboard) <= MaxClips
    /\ tracks' = PasteEach(tracks, clipboard, playhead_time, UsedOids)
    /\ UNCHANGED coreVars
    /\ UNCHANGED auxVars
    /\ UNCHANGED <<playhead_time, snap_enabled, pixels_per_second, duration,
                   current_tool, clipboard, dragging_clip, drag_offset>>

SplitAtPlayhead ==
    /\ LET ts == SplitEach(tracks, 1, playhead_time, UsedOids)
       IN /\ Len(get_all_clips(ts)) <= MaxClips
          /\ tracks' = ts
    /\ UNCHANGED coreVars
    /\ UNCHANGED auxVars
    /\ UNCHANGED <<playhead_time, snap_enabled, pixels_per_second, duration,
                   current_tool, clipboard, dragging_clip, drag_offset>>

FindOrCreateTrack(track_type) ==
    /\ Len(tracks) < 7 + MaxNewTracks
    /\ tracks' = find_or_create_track(tracks, track_type)
    /\ UNCHANGED coreVars
    /\ UNCHANGED auxVars
    /\ UNCHANGED <<playhead_time, snap_enabled, pixels_per_second, duration,
                   current_tool, clipboard, dragging_clip, drag_offset>>

\* dur is the duration the media library reports for the file
AddMediaFile(track_type, dur) ==
    /\ Len(tracks) < 7 + MaxNewTracks
    /\ NumClips < MaxClips
    /\ LET ts == find_or_create_track(tracks, track_type)
           target_track == ts[Len(ts)]
           start_time == get_timeline_end_time(ts)
           r == add_clip_to_track(ts, target_track.track_id, start_time, dur,
                                  FreshOid(UsedOids))
           new_end_time == start_time + dur
       IN /\ tracks' = r.tracks
          /\ duration' = IF new_end_time > duration
                         THEN new_end_time + 10 * grid_interval ELSE duration
    /\ UNCHANGED coreVars
    /\ UNCHANGED auxVars
    /\ UNCHANGED <<playhead_time, snap_enabled, pixels_per_second, current_tool,
                   clipboard, dragging_clip, drag_offset>>

\* a call with a clip object the tracks hold
MoveClipToTrack(oid, new_track_id) ==
    /\ oid \in TrackOids(tracks)
    /\ LET r == move_clip_to_track(tracks, oid, new_track_id)
       IN /\ tracks' = r.tracks
    /\ UNCHANGED coreVars
    /\ UNCHANGED auxVars
    /\ UNCHANGED <<playhead_time, snap_enabled, pixels_per_second, duration,
                   current_tool, clipboard, dragging_clip, drag_offset>>

----------------------------------------------------------------------------
(* TimelineTrack operations called on the track at list index k (from 1) *)

TrackMoveClip(k, clip_id, new_start_time) ==
    /\ k \in 1..Len(tracks)
    /\ LET r == move_clip(tracks[k], clip_id, new_start_time)
       IN /\ tracks' = [tracks EXCEPT ![k] = r.track]
    /\ UNCHANGED coreVars
    /\ UNCHANGED auxVars
    /\ UNCHANGED <<playhead_time, snap_enabled, pixels_per_second, duration,
                   current_tool, clipboard, dragging_clip, drag_offset>>

TrackSplitClip(k, clip_id, split_time) ==
    /\ k \in 1..Len(tracks)
    /\ LET r == split_clip(tracks[k], clip_id, split_time, FreshOid(UsedOids))
       IN /\ NumClips < MaxClips \/ r.ret = <<>>
          /\ tracks' = [tracks EXCEPT ![k] = r.track]
    /\ UNCHANGED coreVars
    /\ UNCHANGED auxVars
    /\ UNCHANGED <<playhead_time, snap_enabled, pixels_per_second, duration,
                   current_tool, clipboard, dragging_clip, drag_offset>>

TrackRemoveClip(k, clip_id) ==
    /\ k \in 1..Len(tracks)
    /\ tracks' = [tracks EXCEPT ![k] = remove_clip(@, clip_id)]
    /\ UNCHANGED coreVars
    /\ UNCHANGED auxVars
    /\ UNCHANGED <<playhead_time, snap_enabled, pixels_per_second, duration,
                   current_tool, clipboard, dragging_clip, drag_offset>>

\* track.locked = locked, an attribute the owner of the track sets
SetLocked(k, locked) ==
    /\ k \in 1..Len(tracks)
    /\ tracks[k].locked # locked
    /\ tracks' = [tracks EXCEPT ![k].locked = locked]
    /\ UNCHANGED coreVars
    /\ UNCHANGED auxVars
    /\ UNCHANGED <<playhead_time, snap_enabled, pixels_per_second, duration,
                   current_tool, clipboard, dragging_clip, drag_offset>>

----------------------------------------------------------------------------
(* TimelineTrackWidget: the pointer. A press goes to the widget of the     *)
(* track at list index k; the moves and the release that follow go to the  *)
(* same widget, so one drag is in progress at a time.                      *)

MousePress(k, time) ==
    /\ k \in 1..Len(tracks)
    /\ dragging_clip = None
    /\ LET i == get_clip_at_time(tracks[k], time)
       IN IF current_tool = "razor" /\ i # 0
          THEN LET r == split_clip(tracks[k], tracks[k].clips[i].clip_id, time,
                                   FreshOid(UsedOids))
               IN /\ NumClips < MaxClips \/ r.ret = <<>>
                  /\ tracks' = [tracks EXCEPT ![k] = r.track]
                  /\ UNCHANGED <<dragging_clip, drag_offset>>
          ELSE IF current_tool = "select" /\ i # 0
          THEN /\ tracks' = [tracks EXCEPT ![k] = select_clip(@, @.clips[i].oid)]
               /\ dragging_clip' = tracks[k].clips[i].oid
               /\ drag_offset' = time - tracks[k].clips[i].start_time
          ELSE UNCHANGED <<tracks, dragging_clip, drag_offset>>
    /\ UNCHANGED coreVars
    /\ UNCHANGED auxVars
    /\ UNCHANGED <<playhead_time, snap_enabled, pixels_per_second, duration,
                   current_tool, clipboard>>

\* the tracks after mouseMoveEvent with the pointer at (time, y), for a
\* dragged clip some track holds
DragTo(ts, oid, time, y, offset, enabled, pps, playhead) ==
    LET clip == ClipOf(ts, oid)
        raw == Max(0, time - offset)
        new_time == IF enabled
                    THEN snap_time(ts, raw, clip.clip_id, enabled, pps, playhead)
                    ELSE raw
        track_index == indexForTrack(ts, clip.track)
        new_track_index == TrackIndexAtY(ts, y, track_index)
        ts2 == IF new_track_index # track_index
               THEN move_clip_to_track(ts, oid, new_track_index).tracks
               ELSE ts
        at == current_track_of(ts2, oid) + 1
    IN [ts2 EXCEPT ![at].clips[PosOf(ts2[at], oid)].start_time = new_time]

MouseMove(time, y) ==
    /\ IF dragging_clip # None /\ current_tool = "select"
          /\ dragging_clip \in TrackOids(tracks)
       THEN tracks' = DragTo(tracks, dragging_clip, time, y, drag_offset,
                             snap_enabled, pixels_per_second, playhead_time)
       ELSE UNCHANGED tracks
    /\ UNCHANGED coreVars
    /\ UNCHANGED auxVars
    /\ UNCHANGED <<playhead_time, snap_enabled, pixels_per_second, duration,
                   current_tool, clipboard, dragging_clip, drag_offset>>

MouseRelease ==
    /\ dragging_clip # None
    /\ dragging_clip' = None
    /\ drag_offset' = 0
    /\ UNCHANGED coreVars
    /\ UNCHANGED auxVars
    /\ UNCHANGED <<tracks, playhead_time, snap_enabled, pixels_per_second, duration,
                   current_tool, clipboard>>

----------------------------------------------------------------------------
(* Calls on the core Timeline. A caller that catches what a call raises    *)
(* goes on with the Timeline as the call left it.                          *)

uiVars == <<tracks, playhead_time, snap_enabled, pixels_per_second, duration,
            current_tool, clipboard, dragging_clip, drag_offset>>

\* the uuids of the clip objects and of the selection
UsedUuids(tl) ==
    {tl.clips[i].id : i \in 1..Len(tl.clips)}
        \cup {TrackClips(tl)[i].id : i \in 1..Len(TrackClips(tl))}
        \cup {tl.selected_clips[i] : i \in 1..Len(tl.selected_clips)}

\* uuid.uuid4(): an id no object has
FreshUuid(used) == CHOOSE n \in 1..(Cardinality(used) + 1) : n \notin used

TimelineAddClip(has_fps, start_time, dur, track) ==
    /\ Cardinality(UsedUuids(timeline)) < MaxCoreClips
    /\ timeline' = Timeline_add_clip(timeline, has_fps, start_time, dur, track,
                                     FreshUuid(UsedUuids(timeline))).tl
    /\ UNCHANGED uiVars
    /\ UNCHANGED auxVars
    /\ UNCHANGED keyframes

TimelineRemoveClip(clip_id) ==
    /\ timeline' = Timeline_remove_clip(timeline, clip_id).tl
    /\ UNCHANGED uiVars
    /\ UNCHANGED auxVars
    /\ UNCHANGED keyframes

TimelineMoveClip(clip_id, new_start_time) ==
    /\ timeline' = Timeline_move_clip(timeline, clip_id, new_start_time).tl
    /\ UNCHANGED uiVars
    /\ UNCHANGED auxVars
    /\ UNCHANGED keyframes

TimelineSplitClip(clip_id, split_time) ==
    /\ LET used == UsedUuids(timeline)
           id1 == FreshUuid(used)
       IN timeline' = Timeline_split_clip(timeline, clip_id, split_time,
                                          id1, FreshUuid(used \cup {id1})).tl
    /\ UNCHANGED uiVars
    /\ UNCHANGED auxVars
    /\ UNCHANGED keyframes

TimelineSelectClip(clip_id) ==
    /\ timeline' = Timeline_select_clip(timeline, clip_id)
    /\ UNCHANGED uiVars
    /\ UNCHANGED auxVars
    /\ UNCHANGED keyframes

TimelineLockTrack(track_type, track_index) ==
    /\ timeline' = lock_track(timeline, track_type, track_index)
    /\ UNCHANGED uiVars
    /\ UNCHANGED auxVars
    /\ UNCHANGED keyframes

----------------------------------------------------------------------------
(* Calls on the KeyframeTrack *)

AddKeyframe(time, value) ==
    /\ keyframes' = add_keyframe(keyframes, time, value)
    /\ UNCHANGED uiVars
    /\ UNCHANGED auxVars
    /\ UNCHANGED timeline

RemoveKeyframe(time) ==
    /\ keyframes' = remove_keyframe(keyframes, time)
    /\ UNCHANGED uiVars
    /\ UNCHANGED auxVars
    /\ UNCHANGED timeline

ClearKeyframes ==
    /\ keyframes' = clear
    /\ UNCHANGED uiVars
    /\ UNCHANGED auxVars
    /\ UNCHANGED timeline

----------------------------------------------------------------------------
(* Calls on the AnimatedProperty *)

notProperty == <<tracks, playhead_time, snap_enabled, pixels_per_second, duration,
                 current_tool, clipboard, dragging_clip, drag_offset, timeline, keyframes,
                 automation_keyframes, timeline_clips, syncing_time, preview_widget>>

NewAnimatedProperty(name) ==
    /\ property' = AnimatedProperty(name)
    /\ UNCHANGED notProperty

PropertyAddKeyframe(time, value, component) ==
    /\ property' = AnimatedProperty_add_keyframe(property, time, value, component)
    /\ UNCHANGED notProperty

PropertyRemoveKeyframe(time, component) ==
    /\ property' = AnimatedProperty_remove_keyframe(property, time, component)
    /\ UNCHANGED notProperty

----------------------------------------------------------------------------
(* Calls on the AutomationTrack *)

notAutomation == <<tracks, playhead_time, snap_enabled, pixels_per_second, duration,
                   current_tool, clipboard, dragging_clip, drag_offset, timeline, keyframes,
                   property, timeline_clips, syncing_time, preview_widget>>

AutomationAddKeyframe(time, value) ==
    /\ automation_keyframes' = automation_add_keyframe(automation_keyframes, time, value)
    /\ UNCHANGED notAutomation

AutomationRemoveKeyframe(time) ==
    /\ automation_keyframes' = automation_remove_keyframe(automation_keyframes, time)
    /\ UNCHANGED notAutomation

----------------------------------------------------------------------------
(* VideoEditor: media added to the timeline, and waveforms *)

\* add_media_file with media_dropped connected to on_media_added_to_timeline
MediaAddedToTimeline(track_type, dur, outcome) ==
    /\ Len(tracks) < 7 + MaxNewTracks
    /\ NumClips < MaxClips
    /\ LET ts == find_or_create_track(tracks, track_type)
           target_track == ts[Len(ts)]
           start_time == get_timeline_end_time(ts)
           r == add_clip_to_track(ts, target_track.track_id, start_time, dur,
                                  FreshOid(UsedOids))
           new_end_time == start_time + dur
       IN /\ tracks' = generate_waveform_for_clip(r.tracks, r.ret, outcome)
          /\ duration' = IF new_end_time > duration
                         THEN new_end_time + 10 * grid_interval ELSE duration
          /\ timeline_clips' = timeline_clips \cup {r.ret}
    /\ UNCHANGED coreVars
    /\ UNCHANGED <<property, automation_keyframes, syncing_time, preview_widget>>
    /\ UNCHANGED <<playhead_time, snap_enabled, pixels_per_second, current_tool,
                   clipboard, dragging_clip, drag_offset>>

\* generate_waveform_for_clip for a clip id media was added for
GenerateWaveformForClip(clip_id, outcome) ==
    /\ clip_id \in timeline_clips
    /\ tracks' = generate_waveform_for_clip(tracks, clip_id, outcome)
    /\ UNCHANGED coreVars
    /\ UNCHANGED auxVars
    /\ UNCHANGED <<playhead_time, snap_enabled, pixels_per_second, duration,
                   current_tool, clipboard, dragging_clip, drag_offset>>

----------------------------------------------------------------------------
(* Arguments *)

TimeArgs == 0..MaxTime

DurArgs == 1..MaxDur

\* the clip ids in use, and one that no clip has
ClipIdArgs ==
    {get_all_clips(tracks)[k].clip_id : k \in 1..NumClips} \cup {NewClipId(99)}

\* one y inside every band of 20 pixels down to the last track, and one above
YArgs == {20 * b + 10 : b \in -1..(3 * Len(tracks) - 1)}

\* the tools the toolbar is switched between here: the two that act on a
\* press, and one that does not
ToolArgs == {"select", "razor", "hand"}

\* the first video track, whose id is its list index (0), and the first audio
\* track by its id (10), which is no list index
AddTrackArgs == {0, 10}

\* a y over the first track (index 0) and one over the fifth (index 4), for
\* the default tracks
DragYArgs == {10, 190}

(* Editing with the pointer on the default tracks: clips are added to the  *)
(* first video track and dragged within it and to the fifth track          *)
Next ==
    \/ \E id \in AddTrackArgs, t \in TimeArgs : AddClipToTrack(id, t, MaxDur)
    \/ \E c \in ClipIdArgs : RemoveClip(c)
    \/ \E tool \in ToolArgs : SetTool(tool)
    \/ DeleteSelectedClips
    \/ \E k \in {1, 5}, t \in TimeArgs : MousePress(k, t)
    \/ \E t \in TimeArgs, y \in DragYArgs : MouseMove(t, y)
    \/ MouseRelease

Spec == Init /\ [][Next]_vars

(* Copy and paste on the first video track; a press with the select tool  *)
(* selects the clip to copy                                                *)
NextPaste ==
    \/ AddClipToTrack(0, 0, MaxDur)
    \/ DeleteSelectedClips
    \/ \E t \in TimeArgs : SetPlayheadTime(t)
    \/ CopySelectedClips
    \/ PasteClips
    \/ \E t \in TimeArgs : MousePress(1, t)
    \/ MouseRelease

SpecPaste == Init /\ [][NextPaste]_vars

(* Splitting on the first video track: the razor and the split shortcut *)
NextSplit ==
    \/ \E t \in TimeArgs, d \in DurArgs : AddClipToTrack(0, t, d)
    \/ \E c \in ClipIdArgs : RemoveClip(c)
    \/ \E tool \in {"select", "razor"} : SetTool(tool)
    \/ \E t \in TimeArgs : SetPlayheadTime(t)
    \/ SplitAtPlayhead
    \/ \E t \in TimeArgs : MousePress(1, t)
    \/ MouseRelease

SpecSplit == Init /\ [][NextSplit]_vars

\* a track id that is a list index (1), a list index that is no track id (5),
\* a track id that is no list index (10), and neither (99)
MoveTrackArgs == {1, 5, 10, 99}

(* Moving clips between tracks by calls of move_clip_to_track *)
NextMove ==
    \/ \E id \in AddTrackArgs, t \in TimeArgs, d \in DurArgs : AddClipToTrack(id, t, d)
    \/ \E c \in ClipIdArgs : RemoveClip(c)
    \/ \E o \in TrackOids(tracks), id \in MoveTrackArgs : MoveClipToTrack(o, id)
    \/ \E k \in {1, 2}, b \in BOOLEAN : SetLocked(k, b)

SpecMove == Init /\ [][NextMove]_vars

(* Adding media files: every file gets a track of its own *)
NextMedia ==
    \/ \E ty \in {"video", "audio"} : FindOrCreateTrack(ty)
    \/ \E ty \in {"video", "audio"}, d \in DurArgs : AddMediaFile(ty, d)
    \/ \E c \in ClipIdArgs : RemoveClip(c)

SpecMedia == Init /\ [][NextMedia]_vars

(* Editing one track: the operations of TimelineTrack on the first video  *)
(* track, with clips added through the widget and dragged within the      *)
(* track by their left edge                                                *)
NextTrack ==
    \/ \E t \in TimeArgs, d \in DurArgs : AddClipToTrack(0, t, d)
    \/ \E c \in ClipIdArgs, t \in TimeArgs : TrackMoveClip(1, c, t)
    \/ \E c \in ClipIdArgs, t \in TimeArgs : TrackSplitClip(1, c, t)
    \/ \E c \in ClipIdArgs : TrackRemoveClip(1, c)
    \/ \E b \in BOOLEAN : SetLocked(1, b)
    \/ MousePress(1, 0)
    \/ \E t \in TimeArgs : MouseMove(t, 10)
    \/ MouseRelease

SpecTrack == Init /\ [][NextTrack]_vars

----------------------------------------------------------------------------
(* Properties *)

TrackIdExists(ts, id) == \E i \in 1..Len(ts) : ts[i].track_id = id

\* how many times the tracks hold the clip object oid
Occurrences(ts, oid) ==
    Cardinality({k \in 1..Len(get_all_clips(ts)) : get_all_clips(ts)[k].oid = oid})

IsSortedByStart(s) ==
    \A j \in 1..(Len(s) - 1) : s[j].start_time <= s[j + 1].start_time

\* the split times tried: up to the latest end a clip can have
SplitTimeArgs == 0..(MaxTime + MaxDur)

\* the core Timeline: add, remove, move, split, select, lock
UuidArgs == 1..(MaxCoreClips + 1)

CoreTrackArgs == {0, 1}

CoreTimeArgs == {0, 2}

CoreDurArgs == {2, MaxDur}

NextCore ==
    \/ \E has_fps \in BOOLEAN, t \in CoreTimeArgs, d \in CoreDurArgs, k \in CoreTrackArgs :
          TimelineAddClip(has_fps, t, d, k)
    \/ \E id \in UuidArgs : TimelineRemoveClip(id)
    \/ \E id \in UuidArgs, t \in TimeArgs : TimelineMoveClip(id, t)
    \/ \E id \in UuidArgs, t \in SplitTimeArgs : TimelineSplitClip(id, t)
    \/ \E id \in UuidArgs : TimelineSelectClip(id)
    \/ TimelineLockTrack("video", 0)

SpecCore == Init /\ [][NextCore]_vars

\* C1: move_clip_to_track with a target track id that no track has returns
\* False and leaves the clip in its original track exactly once, in no other
\* track, with track, start_time and duration unchanged.
C1_FailedMoveIsAtomic ==
    \A oid \in TrackOids(tracks), id \in MoveTrackArgs :
        ~TrackIdExists(tracks, id) =>
            LET r == move_clip_to_track(tracks, oid, id)
                before == ClipOf(tracks, oid)
            IN /\ r.ret = FALSE
               /\ Occurrences(r.tracks, oid) = 1
               /\ current_track_of(r.tracks, oid) = current_track_of(tracks, oid)
               /\ ClipOf(r.tracks, oid).track = before.track
               /\ ClipOf(r.tracks, oid).start_time = before.start_time
               /\ ClipOf(r.tracks, oid).duration = before.duration

C3_SplitOutsideIsNoOp ==
    \A k \in 1..Len(tracks), c \in ClipIdArgs, t \in SplitTimeArgs :
        LET tr == tracks[k]
            i == get_clip_by_id(tr, c)
        IN (i = 0 \/ t <= tr.clips[i].start_time
                  \/ t >= tr.clips[i].start_time + tr.clips[i].duration) =>
            LET r == split_clip(tr, c, t, FreshOid(UsedOids))
            IN r.ret = <<>> /\ r.track = tr

\* a track holds two clips, and a split of one at its own end is refused
C3_Witness ==
    \E k \in 1..Len(tracks) :
        /\ Len(tracks[k].clips) = 2
        /\ \E j \in 1..2 :
              /\ end_time(tracks[k].clips[j]) \in SplitTimeArgs
              /\ get_clip_by_id(tracks[k], tracks[k].clips[j].clip_id) = j
              /\ split_clip(tracks[k], tracks[k].clips[j].clip_id,
                            end_time(tracks[k].clips[j]), FreshOid(UsedOids)).ret = <<>>

\* the clips of a track as the lock is to keep them: which, where, how long
Timing(track) ==
    [j \in 1..Len(track.clips) |->
        <<track.clips[j].oid, track.clips[j].start_time, track.clips[j].duration>>]

\* C4: while a track is locked, no operation changes its clip list or any of
\* its clips' start_time and duration.
C4_LockedTrackUnchanged ==
    [][\A k \in 1..Len(tracks) :
          (tracks[k].locked /\ tracks'[k].locked) => Timing(tracks'[k]) = Timing(tracks[k])]_vars

\* C5: every clip object is in the clips of exactly one track, once, and its
\* track field is the track_id of that track.
C5_ExclusiveOwnership ==
    \A k \in 1..Len(tracks) : \A j \in 1..Len(tracks[k].clips) :
        /\ Occurrences(tracks, tracks[k].clips[j].oid) = 1
        /\ tracks[k].clips[j].track = tracks[k].track_id

\* C6: whenever a track with track_id = new_track_id exists, move_clip_to_track
\* returns True, the clip is in that track and in no other, clip.track is
\* new_track_id, and start_time and duration are unchanged.
C6_MoveToExistingTrackSucceeds ==
    \A oid \in TrackOids(tracks), id \in MoveTrackArgs :
        TrackIdExists(tracks, id) =>
            LET r == move_clip_to_track(tracks, oid, id)
                before == ClipOf(tracks, oid)
            IN /\ r.ret = TRUE
               /\ Occurrences(r.tracks, oid) = 1
               /\ r.tracks[current_track_of(r.tracks, oid) + 1].track_id = id
               /\ ClipOf(r.tracks, oid).track = id
               /\ ClipOf(r.tracks, oid).start_time = before.start_time
               /\ ClipOf(r.tracks, oid).duration = before.duration

\* C7: no two clips of the timeline share a clip_id.
C7_ClipIdsUnique ==
    \A a, b \in 1..NumClips :
        a # b => get_all_clips(tracks)[a].clip_id # get_all_clips(tracks)[b].clip_id

\* C8: no two tracks of the timeline share a track_id.
C8_TrackIdsUnique ==
    \A a, b \in 1..Len(tracks) : a # b => tracks[a].track_id # tracks[b].track_id

\* C9: the clips of every track are in the order of their start_time.
C9_ClipsSorted ==
    \A k \in 1..Len(tracks) : IsSortedByStart(tracks[k].clips)

\* C10: move_clip returns False and changes nothing when the track is locked
\* or holds no clip with that id; otherwise it returns True, the clip has the
\* new start_time and its other fields, every other clip is as it was, and the
\* clips are sorted by start_time.
C10_MoveClipContract ==
    \A k \in 1..Len(tracks), c \in ClipIdArgs, t \in TimeArgs :
        LET tr == tracks[k]
            i == get_clip_by_id(tr, c)
            r == move_clip(tr, c, t)
        IN IF tr.locked \/ i = 0
           THEN r.ret = FALSE /\ r.track = tr
           ELSE /\ r.ret = TRUE
                /\ [r.track EXCEPT !.clips = <<>>] = [tr EXCEPT !.clips = <<>>]
                /\ Len(r.track.clips) = Len(tr.clips)
                /\ IsSortedByStart(r.track.clips)
                /\ \A j \in 1..Len(tr.clips) :
                      \E m \in 1..Len(r.track.clips) :
                          r.track.clips[m] =
                              IF j = i THEN [tr.clips[j] EXCEPT !.start_time = t]
                              ELSE tr.clips[j]
                /\ \A m \in 1..Len(r.track.clips) :
                      \E j \in 1..Len(tr.clips) :
                          r.track.clips[m].oid = tr.clips[j].oid

\* an unlocked track whose two clips are out of order, on which move_clip
\* moves the first clip of the list and returns True
C10_Witness ==
    \E k \in 1..Len(tracks) :
        /\ Len(tracks[k].clips) = 2
        /\ ~tracks[k].locked
        /\ ~IsSortedByStart(tracks[k].clips)
        /\ \E t \in TimeArgs :
              LET r == move_clip(tracks[k], tracks[k].clips[1].clip_id, t)
              IN r.ret = TRUE /\ r.track.clips # tracks[k].clips

----------------------------------------------------------------------------
(* Removing clips, in the widget and in the core Timeline *)

NextRemove ==
    \/ \E k \in {0, 1}, t \in {0, 1} : AddClipToTrack(k, t, MaxDur)
    \/ \E c \in ClipIdArgs : RemoveClip(c)
    \/ \E k \in {1, 2}, c \in ClipIdArgs : TrackRemoveClip(k, c)
    \/ \E has_fps \in BOOLEAN, t \in CoreTimeArgs : TimelineAddClip(has_fps, t, MaxDur, 0)
    \/ \E id \in UuidArgs : TimelineRemoveClip(id)
    \/ \E id \in UuidArgs : TimelineSelectClip(id)

SpecRemove == Init /\ [][NextRemove]_vars

\* C11: a second remove_clip of the same id changes nothing more and raises
\* nothing, and a remove_clip of an id no clip has changes nothing; for
\* TimelineTrack.remove_clip, TimelineWidget.remove_clip and the core
\* Timeline.remove_clip.
C11_RemoveClipIdempotent ==
    /\ \A c \in ClipIdArgs :
          /\ remove_clip_all(remove_clip_all(tracks, c), c) = remove_clip_all(tracks, c)
          /\ (\A i \in 1..NumClips : get_all_clips(tracks)[i].clip_id # c)
                => remove_clip_all(tracks, c) = tracks
          /\ \A k \in 1..Len(tracks) :
                /\ remove_clip(remove_clip(tracks[k], c), c) = remove_clip(tracks[k], c)
                /\ get_clip_by_id(tracks[k], c) = 0 => remove_clip(tracks[k], c) = tracks[k]
    /\ \A id \in UuidArgs :
          LET once == Timeline_remove_clip(timeline, id)
              twice == Timeline_remove_clip(once.tl, id)
          IN /\ twice.raised = ""
             /\ twice.tl = once.tl
             /\ Timeline_get_clip_by_id(timeline, id) = 0
                   => once.raised = "" /\ once.tl = timeline

\* a track holds two clips with one clip_id, and the core Timeline holds a
\* selected clip: remove_clip of either id takes clips away
C11_Witness ==
    /\ \E k \in 1..Len(tracks) :
          /\ Len(tracks[k].clips) = 2
          /\ tracks[k].clips[1].clip_id = tracks[k].clips[2].clip_id
          /\ remove_clip(tracks[k], tracks[k].clips[1].clip_id).clips = <<>>
    /\ \E i \in 1..Len(timeline.clips) :
          /\ timeline.clips[i].selected
          /\ Timeline_remove_clip(timeline, timeline.clips[i].id).tl # timeline

----------------------------------------------------------------------------
(* The core Timeline *)

\* C12: remove_clip, move_clip and split_clip of the core Timeline raise
\* nothing, for any id and time, and when one returns False or (None, None)
\* the Timeline is as it was before the call.
C12_CoreMutationsAtomic ==
    \A id \in UuidArgs, t \in SplitTimeArgs :
        LET r == Timeline_remove_clip(timeline, id)
            m == Timeline_move_clip(timeline, id, t)
            s == Timeline_split_clip(timeline, id, t, FreshUuid(UsedUuids(timeline)),
                                     FreshUuid(UsedUuids(timeline)) + 1)
        IN /\ r.raised = "" /\ (r.value = FALSE => r.tl = timeline)
           /\ m.raised = "" /\ (m.value = FALSE => m.tl = timeline)
           /\ s.raised = "" /\ (s.value = <<None, None>> => s.tl = timeline)

----------------------------------------------------------------------------
(* Snapping *)

\* zoom, snapping and the playhead change, clips come and go and are dragged
NextSnap ==
    \/ \E k \in {0, 1}, t \in {0, 1} : AddClipToTrack(k, t, MaxDur)
    \/ \E c \in ClipIdArgs : RemoveClip(c)
    \/ \E z \in ZoomLevels : SetZoom(z)
    \/ \E b \in BOOLEAN : ToggleSnap(b)
    \/ \E t \in {0, MaxTime} : SetPlayheadTime(t)
    \/ \E t \in {0, 1} : MousePress(1, t)
    \/ \E t \in TimeArgs : MouseMove(t, 10)
    \/ MouseRelease

SpecSnap == Init /\ [][NextSnap]_vars

\* the arguments of snap_time: a time, and a clip of the timeline or None
SnapTimeArgs == 0..(MaxTime + MaxDur)

DraggedArgs == TrackOids(tracks) \cup {None}

SkipIdOf(oid) == IF oid = None THEN NoClipId ELSE ClipOf(tracks, oid).clip_id

\* the grid point, the playhead and the start and end of every clip other
\* than the dragged one, as far as they lie within the threshold of time
CandidatesWithin(time, oid) ==
    {c \in {grid_time(time), playhead_time}
             \cup {get_all_clips(tracks)[i].start_time :
                      i \in {j \in 1..NumClips : get_all_clips(tracks)[j].oid # oid}}
             \cup {end_time(get_all_clips(tracks)[i]) :
                      i \in {j \in 1..NumClips : get_all_clips(tracks)[j].oid # oid}} :
        within_threshold(time, c, pixels_per_second)}

\* C13: with snapping enabled, snap_time returns one of the candidates within
\* the threshold when there is one and the time itself when there is none;
\* with snapping disabled it returns the time.
C13_SnapInvariant ==
    \A time \in SnapTimeArgs, oid \in DraggedArgs :
        LET res == snap_time(tracks, time, SkipIdOf(oid), snap_enabled,
                             pixels_per_second, playhead_time)
        IN IF ~snap_enabled THEN res = time
           ELSE IF CandidatesWithin(time, oid) = {} THEN res = time
           ELSE res \in CandidatesWithin(time, oid)

\* C14: with snapping enabled and a candidate within the threshold, snap_time
\* returns a candidate, among the grid point, the playhead and the boundaries
\* of the clips other than the dragged one, that no other such candidate is
\* nearer than; the dragged clip's own boundaries are not candidates.
C14_SnapNearest ==
    \A time \in SnapTimeArgs, oid \in DraggedArgs :
        LET res == snap_time(tracks, time, SkipIdOf(oid), snap_enabled,
                             pixels_per_second, playhead_time)
        IN (snap_enabled /\ CandidatesWithin(time, oid) # {})
              => /\ res \in CandidatesWithin(time, oid)
                 /\ \A c \in CandidatesWithin(time, oid) :
                       Abs(res - time) <= Abs(c - time)

----------------------------------------------------------------------------
(* Queries of the core Timeline *)

\* the ids of the clips of a list
IdsOf(s) == {s[i].id : i \in 1..Len(s)}

\* C15: get_clips_at_time(time) returns exactly the clips, of all tracks, with
\* start_time <= time <= end_time; and a split_clip inside a clip succeeds,
\* after which the times past the split are in the right half and not in the
\* left half.
C15_ClipsAtTime ==
    /\ \A t \in SplitTimeArgs :
          IdsOf(Timeline_get_clips_at_time(timeline, t))
              = IdsOf(SelectSeq(TrackClips(timeline),
                                LAMBDA c : c.start_time <= t /\ t <= c.end_time))
    /\ \A i \in 1..Len(timeline.clips), t \in SplitTimeArgs :
          LET clip == timeline.clips[i]
              s == Timeline_split_clip(timeline, clip.id, t,
                                       FreshUuid(UsedUuids(timeline)),
                                       FreshUuid(UsedUuids(timeline)) + 1)
          IN (clip.start_time < t /\ t < clip.end_time)
                => /\ s.value # <<None, None>>
                   /\ \A t2 \in SplitTimeArgs :
                         (t < t2 /\ t2 <= clip.end_time)
                            => /\ s.value[2] \in IdsOf(Timeline_get_clips_at_time(s.tl, t2))
                               /\ s.value[1] \notin IdsOf(Timeline_get_clips_at_time(s.tl, t2))

\* the greatest of a set of end times, 0 for none
GreatestEnd(ends) == IF ends = {} THEN 0 ELSE CHOOSE e \in ends : \A x \in ends : x <= e

\* C16: the total duration is the greatest end_time of the clips of all
\* tracks, 0 when there is no clip; for TimelineWidget.get_timeline_end_time
\* and for the core Timeline.get_total_duration.
C16_TotalDuration ==
    /\ get_timeline_end_time(tracks)
          = GreatestEnd({end_time(get_all_clips(tracks)[i]) : i \in 1..NumClips})
    /\ get_total_duration(timeline)
          = GreatestEnd({TrackClips(timeline)[i].end_time : i \in 1..Len(TrackClips(timeline))})

----------------------------------------------------------------------------
(* Editing in every tool mode: razor clicks, split at the playhead, moves, *)
(* drags, moves to another track, removal. Clips are added with a positive *)
(* duration.                                                               *)

NextEdit ==
    \/ AddClipToTrack(0, 0, MaxDur)
    \/ \E tool \in ToolArgs : SetTool(tool)
    \/ MousePress(1, 1)
    \/ \E t \in {0, 2} : MouseMove(t, 10)
    \/ MouseRelease
    \/ SetPlayheadTime(2)
    \/ SplitAtPlayhead
    \/ \E c \in ClipIdArgs : RemoveClip(c)
    \/ \E c \in ClipIdArgs : TrackMoveClip(1, c, 1)
    \/ \E oid \in TrackOids(tracks) : MoveClipToTrack(oid, 1)

SpecEdit == Init /\ [][NextEdit]_vars

\* what copy_selected_clips puts on the clipboard
CopiesOfSelected(ts) ==
    [k \in 1..Len(get_selected_clips(ts)) |-> [get_selected_clips(ts)[k] EXCEPT !.oid = 0]]

\* C17: every clip of every track has a duration above 0, and so has every
\* clip after the selected clips are copied and pasted at the playhead.
C17_PositiveDuration ==
    /\ \A i \in 1..NumClips : get_all_clips(tracks)[i].duration > 0
    /\ LET pasted == get_all_clips(PasteEach(tracks, CopiesOfSelected(tracks),
                                             playhead_time, UsedOids))
       IN \A i \in 1..Len(pasted) : pasted[i].duration > 0

\* a track holds the two halves of a split clip, the left half moved after
\* the right one
C17_Witness ==
    \E k \in 1..Len(tracks) :
        /\ Len(tracks[k].clips) = 2
        /\ tracks[k].clips[1].name = <<2>>
        /\ tracks[k].clips[2].name = <<1>>
        /\ tracks[k].clips[1].duration + tracks[k].clips[2].duration = MaxDur

----------------------------------------------------------------------------
(* Time arguments of any sign *)

SignedTimeArgs == {-1, 0, 1}

NextTimes ==
    \/ \E t \in SignedTimeArgs : AddClipToTrack(0, t, MaxDur)
    \/ \E c \in ClipIdArgs, t \in SignedTimeArgs : TrackMoveClip(1, c, t)
    \/ \E t \in SignedTimeArgs : SetPlayheadTime(t)
    \/ MousePress(1, 1)
    \/ \E t \in SignedTimeArgs : MouseMove(t, 10)
    \/ MouseRelease
    \/ CopySelectedClips
    \/ PasteClips

SpecTimes == Init /\ [][NextTimes]_vars

\* C18: every clip of every track has a start_time of at least 0.
C18_StartTimeNotNegative ==
    \A i \in 1..NumClips : get_all_clips(tracks)[i].start_time >= 0

----------------------------------------------------------------------------
(* The KeyframeTrack under add_keyframe, remove_keyframe and clear *)

MaxValue == 3

\* times in thousandths: 0.0, 1.0, 199.998 and 200.0
KeyTimeArgs == {0, 1000, 199998, 200000}

ValueArgs == 1..MaxValue

\* the times of KeyTimeArgs, and times before, between and after them
EvaluateTimeArgs == KeyTimeArgs \cup {-1000, 500, 199999, 300000}

InterpolationArgs == {"linear", "cubic", "step"}

NextKeys ==
    \/ \E time \in KeyTimeArgs, value \in ValueArgs : AddKeyframe(time, value)
    \/ \E time \in KeyTimeArgs : RemoveKeyframe(time)
    \/ ClearKeyframes

SpecKeys == Init /\ [][NextKeys]_vars

\* C19: the keyframe times are strictly increasing, and add_keyframe at the
\* time of a keyframe of the track gives that keyframe the new value and keeps
\* the number of keyframes.
C19_KeyframesStrictlyIncreasing ==
    /\ \A i \in 1..(Len(keyframes) - 1) : keyframes[i].time < keyframes[i + 1].time
    /\ \A i \in 1..Len(keyframes) : \A value \in ValueArgs :
          LET after == add_keyframe(keyframes, keyframes[i].time, value)
          IN /\ Len(after) = Len(keyframes)
             /\ after[i].value = value

\* C20: evaluate at the time of a keyframe returns the value of that keyframe,
\* and after add_keyframe(t, v) at the time t of a keyframe of the track
\* evaluate(t) returns v.
C20_EvaluateAtKeyframe ==
    /\ \A i \in 1..Len(keyframes) :
          evaluate(keyframes, keyframes[i].time) = Value(keyframes[i].value, 0, 1)
    /\ \A i \in 1..Len(keyframes) : \A value \in ValueArgs :
          evaluate(add_keyframe(keyframes, keyframes[i].time, value), keyframes[i].time)
              = Value(value, 0, 1)


\* C21: evaluate returns the value of the first keyframe for a time before it,
\* the value of the last keyframe for a time at or after it, and 0.0 on a
\* track without keyframes.
C21_EvaluateClamps ==
    \A time \in EvaluateTimeArgs :
        /\ keyframes = <<>> => evaluate(keyframes, time) = Value(0, 0, 1)
        /\ keyframes # <<>> /\ time < keyframes[1].time
              => evaluate(keyframes, time) = Value(keyframes[1].value, 0, 1)
        /\ keyframes # <<>> /\ time >= keyframes[Len(keyframes)].time
              => evaluate(keyframes, time) = Value(keyframes[Len(keyframes)].value, 0, 1)

\* two keyframes of different values, with times of EvaluateTimeArgs before
\* the first and after the last
C21_Witness ==
    /\ Len(keyframes) = 2
    /\ keyframes[1].time = 1000
    /\ keyframes[2].time = 199998
    /\ keyframes[1].value # keyframes[2].value


\* C23: evaluate with an interpolation other than 'linear' raises
\* NotImplementedError, for every track and every time.
C23_UnsupportedInterpolationRaises ==
    \A time \in EvaluateTimeArgs : \A interpolation \in InterpolationArgs \ {"linear"} :
        evaluate_interpolation(keyframes, time, interpolation).raised = "NotImplementedError"

----------------------------------------------------------------------------
(* The KeyframeTrack with floating-point times and values *)

\* in thousandths: 0.0, 1.5, 3.0 and 3.25
FloatTimeArgs == {0, 1500, 3000, 3250}

\* in thousandths: 1.125, 4.5 and 8.0
FloatValueArgs == {1125, 4500, 8000}

NextInterp ==
    \/ \E time \in FloatTimeArgs, value \in FloatValueArgs : AddKeyframe(time, value)
    \/ \E time \in FloatTimeArgs : RemoveKeyframe(time)

SpecInterp == Init /\ [][NextInterp]_vars

\* C22: for adjacent keyframes (t1, v1), (t2, v2) and a time t1 < t < t2,
\* evaluate(t) is the interpolation of these two keyframes and lies between
\* v1 and v2.
C22_InterpolationBetween ==
    \A i \in 1..(Len(keyframes) - 1) : \A time \in FloatTimeArgs :
        keyframes[i].time < time /\ time < keyframes[i + 1].time
            => /\ evaluate_rounded(keyframes, time)
                     = np_interp(time, keyframes[i], keyframes[i + 1])
               /\ \/ /\ keyframes[i].value <= evaluate_rounded(keyframes, time)
                     /\ evaluate_rounded(keyframes, time) <= keyframes[i + 1].value
                  \/ /\ keyframes[i + 1].value <= evaluate_rounded(keyframes, time)
                     /\ evaluate_rounded(keyframes, time) <= keyframes[i].value

----------------------------------------------------------------------------
(* The AnimatedProperty under add_keyframe and remove_keyframe *)

PropertyNameArgs == {"position", "scale", "rotation", "opacity", "volume"}

\* in thousandths: 0.0, 1.0 and 2.0
PropertyTimeArgs == {0, 1000, 2000}

PropertyValueArgs ==
    {ScalarValue(10), SequenceValue(<<0, 0>>), SequenceValue(<<10, 20>>),
     SequenceValue(<<20>>), SequenceValue(<<0, 10, 20>>), OtherValue}

ComponentArgs == {"", "x", "y", "z"}

NextProperty ==
    \/ \E name \in PropertyNameArgs : NewAnimatedProperty(name)
    \/ \E time \in PropertyTimeArgs, value \in PropertyValueArgs,
          component \in ComponentArgs : PropertyAddKeyframe(time, value, component)
    \/ \E time \in PropertyTimeArgs, component \in ComponentArgs :
          PropertyRemoveKeyframe(time, component)

SpecProperty == Init /\ [][NextProperty]_vars

\* the list [track.component for track in tracks]
ComponentsOf(p) == [i \in 1..Len(p.tracks) |-> p.tracks[i].component]

\* C24: add_keyframe gives the items of a sequence to the components x, y in
\* this order; evaluate is a scalar for a property of one component and else
\* the tuple of the evaluations of the components in the order x, y; keyframes
\* (0, (0, 0)) and (2, (10, 20)) of 'position' give (5, 10) at 1; the
\* components are those of the construction.
C24_PropertyComponents ==
    /\ \A time \in PropertyTimeArgs, value \in PropertyValueArgs, component \in ComponentArgs :
          value.kind = "sequence" =>
              \A i \in 1..Len(property.tracks) :
                  AnimatedProperty_add_keyframe(property, time, value, component).tracks[i].keyframes
                      = IF i <= Len(value.items)
                        THEN add_keyframe(property.tracks[i].keyframes, time, value.items[i])
                        ELSE property.tracks[i].keyframes
    /\ ComponentsOf(property)
          = IF property.name \in {"position", "scale"} THEN <<"x", "y">> ELSE <<"x">>
    /\ \A time \in PropertyTimeArgs :
          AnimatedProperty_evaluate(property, time)
              = IF property.name \in {"position", "scale"}
                THEN [kind |-> "tuple", value |-> Value(0, 0, 1),
                      items |-> <<evaluate(property.tracks[1].keyframes, time),
                                  evaluate(property.tracks[2].keyframes, time)>>]
                ELSE [kind |-> "scalar",
                      value |-> evaluate(property.tracks[1].keyframes, time),
                      items |-> <<>>]
    /\ (/\ property.name \in {"position", "scale"}
        /\ property.tracks[1].keyframes = <<Keyframe(0, 0), Keyframe(2000, 10)>>
        /\ property.tracks[2].keyframes = <<Keyframe(0, 0), Keyframe(2000, 20)>>)
          => AnimatedProperty_evaluate(property, 1000).items = <<Value(5, 0, 1), Value(10, 0, 1)>>

\* 'position' after add_keyframe(0, (0, 0)) and add_keyframe(2, (10, 20))
C24_Witness ==
    /\ property.name = "position"
    /\ property.tracks[1].keyframes = <<Keyframe(0, 0), Keyframe(2000, 10)>>
    /\ property.tracks[2].keyframes = <<Keyframe(0, 0), Keyframe(2000, 20)>>

----------------------------------------------------------------------------
(* The AutomationTrack under add_keyframe and remove_keyframe *)

\* in thousandths, below min_value, inside the range and above max_value
AutomationValueArgs == {-500, 0, 375, 1000, 1500, 8000}

\* the times of the keyframes, and times before, between and after them
AutomationTimeArgs == FloatTimeArgs \cup {750, 2250, 4000}

NextAutomation ==
    \/ \E time \in FloatTimeArgs, value \in AutomationValueArgs :
          AutomationAddKeyframe(time, value)
    \/ \E time \in FloatTimeArgs : AutomationRemoveKeyframe(time)

SpecAutomation == Init /\ [][NextAutomation]_vars

\* C25: every stored keyframe value is in [min_value, max_value], and so is
\* get_value_at_time(t) for every t.
C25_AutomationClamp ==
    /\ \A t \in DOMAIN automation_keyframes :
          min_value <= automation_keyframes[t] /\ automation_keyframes[t] <= max_value
    /\ \A time \in AutomationTimeArgs :
          /\ min_value <= get_value_at_time(automation_keyframes, time)
          /\ get_value_at_time(automation_keyframes, time) <= max_value

\* keyframes at both ends of the range and one inside, as left by
\* add_keyframe(0.0, -0.5), add_keyframe(1.5, 0.375), add_keyframe(3.25, 8.0)
C25_Witness ==
    /\ DOMAIN automation_keyframes = {0, 1500, 3250}
    /\ automation_keyframes[0] = min_value
    /\ automation_keyframes[1500] = 375
    /\ automation_keyframes[3250] = max_value

----------------------------------------------------------------------------
(* The pointer in every tool mode, on the first video track *)

PressTimeArgs == {1, 4}

NextTools ==
    \/ AddClipToTrack(0, 0, MaxDur)
    \/ \E c \in ClipIdArgs : RemoveClip(c)
    \/ \E tool \in Tools : SetTool(tool)
    \/ \E t \in PressTimeArgs : MousePress(1, t)
    \/ \E t \in PressTimeArgs : MouseMove(t, 10)
    \/ MouseRelease

SpecTools == Init /\ [][NextTools]_vars

\* the clip objects the tracks hold before and after a step
KeptOids == TrackOids(tracks) \cap TrackOids(tracks')

\* C26: a press in razor mode on a clip, at a time inside it, splits the
\* clicked clip at that time; no step in razor mode starts a drag or changes a
\* start_time or a track; no step in select mode changes a duration, and a
\* drag that starts is of a selected clip; no step in another mode changes a
\* start_time, a duration or a track.
C26_ToolDecides ==
    /\ [](current_tool = "razor" /\ dragging_clip = None =>
            \A k \in 1..Len(tracks) : \A time \in PressTimeArgs :
                LET i == get_clip_at_time(tracks[k], time)
                IN (i # 0 /\ split_in_range(tracks[k].clips[i], time)) =>
                      LET after == split_clip(tracks[k], tracks[k].clips[i].clip_id, time,
                                              FreshOid(UsedOids)).track
                          clicked == after.clips[PosOf(after, tracks[k].clips[i].oid)]
                      IN /\ end_time(clicked) = time
                         /\ Len(after.clips) = Len(tracks[k].clips) + 1)
    /\ [][/\ current_tool = "razor" =>
                /\ dragging_clip' = dragging_clip \/ dragging_clip' = None
                /\ \A oid \in KeptOids :
                      /\ ClipOf(tracks', oid).start_time = ClipOf(tracks, oid).start_time
                      /\ current_track_of(tracks', oid) = current_track_of(tracks, oid)
          /\ current_tool = "select" =>
                /\ \A oid \in KeptOids :
                      ClipOf(tracks', oid).duration = ClipOf(tracks, oid).duration
                /\ dragging_clip = None /\ dragging_clip' # None =>
                      ClipOf(tracks', dragging_clip').selected
          /\ current_tool \notin {"razor", "select"} =>
                /\ dragging_clip' = dragging_clip \/ dragging_clip' = None
                /\ \A oid \in KeptOids :
                      /\ ClipOf(tracks', oid).start_time = ClipOf(tracks, oid).start_time
                      /\ ClipOf(tracks', oid).duration = ClipOf(tracks, oid).duration
                      /\ current_track_of(tracks', oid) = current_track_of(tracks, oid)
         ]_vars

----------------------------------------------------------------------------
(* Waveforms of clips that are moved, removed and added meanwhile *)

NextWaveform ==
    \/ \E ty \in {"video", "audio"}, outcome \in WaveformOutcomes :
          MediaAddedToTimeline(ty, MaxDur, outcome)
    \/ \E c \in timeline_clips, outcome \in WaveformOutcomes :
          GenerateWaveformForClip(c, outcome)
    \/ \E c \in ClipIdArgs : RemoveClip(c)
    \/ \E oid \in TrackOids(tracks) : MoveClipToTrack(oid, 1)
    \/ \E k \in 1..Len(tracks), c \in ClipIdArgs : TrackMoveClip(k, c, 1)

SpecWaveform == Init /\ [][NextWaveform]_vars

\* the tracks without the waveform fields of the clips with the id
WithoutWaveform(ts, clip_id) ==
    [k \in 1..Len(ts) |->
        [ts[k] EXCEPT !.clips = [j \in 1..Len(ts[k].clips) |->
            IF ts[k].clips[j].clip_id = clip_id
            THEN [ts[k].clips[j] EXCEPT !.waveform_data = None, !.has_audio = FALSE]
            ELSE ts[k].clips[j]]]]

\* C27: generate_waveform_for_clip for an id no track holds changes nothing;
\* for an id some track holds it changes at most the waveform_data and
\* has_audio of a clip with that id.
C27_WaveformAttach ==
    \A clip_id \in timeline_clips \cup ClipIdArgs : \A outcome \in WaveformOutcomes :
        LET after == generate_waveform_for_clip(tracks, clip_id, outcome)
        IN /\ FindClipById(tracks, clip_id, 1) = <<0, 0>> => after = tracks
           /\ WithoutWaveform(after, clip_id) = WithoutWaveform(tracks, clip_id)

\* media was added for an id that no track holds any more, while a clip that
\* has its waveform was moved to another track
C27_Witness ==
    /\ \E c \in timeline_clips : FindClipById(tracks, c, 1) = <<0, 0>>
    /\ \E i \in 1..NumClips :
          /\ get_all_clips(tracks)[i].has_audio
          /\ get_all_clips(tracks)[i].track = 1
          /\ get_all_clips(tracks)[i].start_time = 1

----------------------------------------------------------------------------
(* Adding media files to a timeline that also holds clips placed by       *)
(* add_clip_to_track on the first video track, at times of either sign    *)

MediaTimeArgs == {-4, 0, 1}

NextMediaTimes ==
    \/ \E t \in MediaTimeArgs, d \in DurArgs : AddClipToTrack(0, t, d)
    \/ \E ty \in {"video", "audio"}, d \in DurArgs : AddMediaFile(ty, d)
    \/ \E c \in ClipIdArgs : RemoveClip(c)

SpecMediaTimes == Init /\ [][NextMediaTimes]_vars

\* the clips of the tracks that find_or_create_track made
MediaClips(ts) == get_all_clips(SubSeq(ts, Len(create_default_tracks) + 1, Len(ts)))

\* the step of add_media_file leaves the tracks there were as they are and
\* appends one track that holds one clip, a new one
AddsOneTrackWithOneClip ==
    /\ Len(tracks') = Len(tracks) + 1
    /\ SubSeq(tracks', 1, Len(tracks)) = tracks
    /\ Len(tracks'[Len(tracks')].clips) = 1
    /\ tracks'[Len(tracks')].clips[1].oid \notin TrackOids(tracks)

\* the new clip starts at the greatest end_time of the clips there were,
\* at 0 when there were none
StartsAtGreatestEnd ==
    LET ends == {end_time(get_all_clips(tracks)[i]) : i \in 1..NumClips}
        greatest == IF ends = {} THEN 0
                    ELSE CHOOSE m \in ends : \A e \in ends : e <= m
    IN tracks'[Len(tracks')].clips[1].start_time = greatest

\* C28: every add_media_file call appends one track that holds exactly the
\* new clip; the clip starts at the greatest end_time of the clips there
\* were before the call (0 when there were none); the clips that
\* add_media_file added do not overlap in time; and after the call
\* duration is at least the end_time of the new clip.
C28_AddMediaFile ==
    /\ [](\A a, b \in 1..Len(MediaClips(tracks)) :
            a # b => \/ end_time(MediaClips(tracks)[a]) <= MediaClips(tracks)[b].start_time
                     \/ end_time(MediaClips(tracks)[b]) <= MediaClips(tracks)[a].start_time)
    /\ [][\A ty \in {"video", "audio"}, d \in DurArgs :
            AddMediaFile(ty, d) =>
                /\ AddsOneTrackWithOneClip
                /\ StartsAtGreatestEnd
                /\ tracks'[Len(tracks')].clips[1].duration = d
                /\ duration' >= end_time(tracks'[Len(tracks')].clips[1])]_vars

----------------------------------------------------------------------------
(* The timeline and the preview of a VideoEditor, whose time_changed      *)
(* signals are connected to on_timeline_time_changed and                  *)
(* on_preview_time_changed                                                 *)

\* the editor before a call in which the statement fault raises
Editor(fault) ==
    [playhead_time |-> playhead_time, preview |-> preview_widget,
     syncing_time |-> syncing_time, calls |-> <<>>, fault |-> fault, exc |-> "",
     unhandled |-> FALSE]

notSync == <<tracks, snap_enabled, pixels_per_second, duration, current_tool, clipboard,
             dragging_clip, drag_offset, timeline, keyframes, property,
             automation_keyframes, timeline_clips>>

\* the state the call that returned e leaves
EditorAfter(e) ==
    /\ playhead_time' = e.playhead_time
    /\ preview_widget' = e.preview
    /\ syncing_time' = e.syncing_time
    /\ UNCHANGED notSync

EditorSetPlayheadTime(time, fault) == EditorAfter(set_playhead_time(Editor(fault), time))

\* the scrubbing widget's time_changed is connected to seek_to_time
EditorSeekToTime(time, fault) == EditorAfter(seek_to_time(Editor(fault), time))

SetVideoClip(clip) ==
    /\ preview_widget' = set_video_clip(preview_widget, clip)
    /\ UNCHANGED <<playhead_time, syncing_time>>
    /\ UNCHANGED notSync

TogglePlayback ==
    /\ preview_widget' = toggle_playback(preview_widget)
    /\ UNCHANGED <<playhead_time, syncing_time>>
    /\ UNCHANGED notSync

\* a tick of the playback timer
AdvanceFrame(loop) ==
    /\ preview_widget.is_playing
    /\ EditorAfter(advance_frame(Editor(""), loop))

StopPlayback == EditorAfter(stop_playback(Editor("")))

SyncTimeArgs == (-1)..(MaxTime + 1)

NextSync ==
    \/ \E clip \in {None} \cup DurArgs : SetVideoClip(clip)
    \/ \E t \in SyncTimeArgs, f \in Faults : EditorSetPlayheadTime(t, f)
    \/ \E t \in SyncTimeArgs, f \in Faults : EditorSeekToTime(t, f)
    \/ TogglePlayback
    \/ \E loop \in BOOLEAN : AdvanceFrame(loop)
    \/ StopPlayback

SpecSync == Init /\ [][NextSync]_vars

\* how often a call of e was a call of name
CallsOf(e, name) == Cardinality({i \in 1..Len(e.calls) : e.calls[i] = name})

\* C29: a set_playhead_time on the timeline makes one seek_to_time of the
\* preview and no second set_playhead_time; a seek_to_time of the preview
\* makes one set_playhead_time and no second seek_to_time; after either the
\* guard _syncing_time is False, also when the call a handler makes raises.
C29_TimeSyncTerminates ==
    /\ ~syncing_time
    /\ \A time \in SyncTimeArgs :
          /\ \A fault \in Faults :
                LET e == set_playhead_time(Editor(fault), time)
                IN /\ CallsOf(e, "seek_to_time") = 1
                   /\ CallsOf(e, "set_playhead_time") = 1
                   /\ CallsOf(e, "on_timeline_time_changed") = 1
                   /\ ~e.syncing_time
          /\ \A fault \in {"", "update_tracks"} :
                LET e == seek_to_time(Editor(fault), time)
                IN /\ CallsOf(e, "set_playhead_time") = 1
                   /\ CallsOf(e, "seek_to_time") = 1
                   /\ CallsOf(e, "on_preview_time_changed") = 1
                   /\ ~e.syncing_time

\* the preview holds a clip and was sought to its end by a playhead beyond it
C29_Witness ==
    /\ preview_widget.video_clip = 2
    /\ preview_widget.current_time = 2
    /\ playhead_time = MaxTime + 1

----------------------------------------------------------------------------
(* Splitting at the playhead *)

\* C30: after split_at_playhead no clip has start_time < playhead_time <
\* end_time: every clip that had, also one that overlaps another clip of its
\* track, ends at the playhead and a new clip of its track runs from the
\* playhead to its old end; a clip that starts or ends at the playhead is
\* as it was.
C30_SplitAtPlayhead ==
    LET ts == SplitEach(tracks, 1, playhead_time, UsedOids)
    IN /\ \A k \in 1..Len(get_all_clips(ts)) :
             ~split_in_range(get_all_clips(ts)[k], playhead_time)
       /\ \A oid \in TrackOids(tracks) :
             split_in_range(ClipOf(tracks, oid), playhead_time) =>
                /\ ClipOf(ts, oid).start_time = ClipOf(tracks, oid).start_time
                /\ end_time(ClipOf(ts, oid)) = playhead_time
                /\ \E new \in TrackOids(ts) \ TrackOids(tracks) :
                      /\ current_track_of(ts, new) = current_track_of(tracks, oid)
                      /\ ClipOf(ts, new).start_time = playhead_time
                      /\ end_time(ClipOf(ts, new)) = end_time(ClipOf(tracks, oid))
       /\ \A oid \in TrackOids(tracks) :
             (\/ ClipOf(tracks, oid).start_time = playhead_time
              \/ end_time(ClipOf(tracks, oid)) = playhead_time) =>
                ClipOf(ts, oid) = ClipOf(tracks, oid)

====
